---- MODULE Spec2Model ----
(***************************************************************************)
(* State-machine model of the rdf4j-mcp backend layer:                     *)
(*   LocalBackend  (src/src/rdf4j_mcp/backends/local.py)                   *)
(*   RemoteBackend (src/src/rdf4j_mcp/backends/remote.py)                  *)
(* One backend instance is constructed (server.py picks the adapter from   *)
(* the settings); every contract method is one action.  The variable res   *)
(* records what the last call returned or raised.                          *)
(***************************************************************************)
EXTENDS Integers, Sequences, FiniteSets, TLC

\* ------------------------------------------------------------------ bounds
\* Number of AsyncRdf4j clients one backend instance may create in a run.
MaxClients == 3

\* ------------------------------------------------------------ value domains
None == "None"

\* Python truthiness of an Optional[str]
Truthy(x) == x # None /\ x # ""

\* Repository ids that the configuration and the callers may name.
RepoIds == {"repoA", "repoB"}

\* Ids a caller hands to the in-process adapter.
LocalCallIds == {"local", "nonexistent"}

\* Query texts: what matters to the adapters is whether the engine accepts it.
Queries == {"wellformed", "malformed"}

WellFormed(query) == query = "wellformed"

\* RDF triples of the sample documents (tests/test_local_backend.py).
Triples ==
    { <<"ex:alice", "rdf:type", "ex:Person">>,
      <<"ex:alice", "ex:name", "Alice">>,
      <<"ex:bob", "rdf:type", "ex:Person">> }

\* Data sources a LocalBackend may be configured with.
StorePaths == {None, "good.ttl", "bad.ttl"}

\* A file that parses, and what it holds.
FileParses(path) == path = "good.ttl"

FileTriples(path) ==
    IF path = "good.ttl" THEN { <<"ex:alice", "rdf:type", "ex:Person">> }
    ELSE { <<"ex:bob", "rdf:type", "ex:Person">> }

\* Documents handed to load_data: the triples written in it, and whether the
\* whole text parses.
Docs == [triples : SUBSET Triples, ok : BOOLEAN]

\* ------------------------------------------------------------------- state
VARIABLES
    adapter,                \* "local" | "remote": which Backend was constructed
    l_store_path,           \* LocalBackend._store_path
    l_graph,                \* LocalBackend._graph
    l_repository_id,        \* LocalBackend._repository_id
    r_default_repository,   \* RemoteBackend._default_repository
    r_current_repository,   \* RemoteBackend._current_repository
    r_client,               \* RemoteBackend._client
    r_repo,                 \* RemoteBackend._repo
    openClients,            \* clients entered (__aenter__) and not yet exited
    nextClient,             \* identity of the next AsyncRdf4j object
    serverRepos,            \* the repository catalog of the RDF4J server
    res,                    \* the last call: operation, arguments, outcome
    life,                   \* history: the last connect()/close() and how it ended
    connFailed,             \* history: some connect() has raised
    eng,                    \* the query of the last call and its engine invocations
    store,                  \* the triples of the repository a query is evaluated on
    eval,                   \* a conversion or derived operation applied: input, output
    srv,                    \* config._settings and the RDF4JMCPServer object
    tasks                   \* the asyncio tasks that call the backend, and where each is

vars == << adapter, l_store_path, l_graph, l_repository_id,
           r_default_repository, r_current_repository, r_client, r_repo,
           openClients, nextClient, serverRepos, res, life, connFailed,
           eng, store, eval, srv, tasks >>

\* The variables of the server object and of concurrent callers.
processVars == << srv, tasks >>

\* The variables that the lifecycle specification (Spec) leaves alone.
dataVars == << store, eval, processVars >>

\* The variables that the data-level specifications leave alone.
sessionVars == << adapter, l_store_path, l_graph, l_repository_id,
                 r_default_repository, r_current_repository, r_client, r_repo,
                 openClients, nextClient, serverRepos, res, life, connFailed, eng,
                 processVars >>

localVars == << l_store_path, l_graph, l_repository_id >>

remoteVars == << r_default_repository, r_current_repository, r_client, r_repo,
                 openClients, nextClient >>

\* Optional[Graph]: None, or a graph holding a set of triples.
NoGraph == [present |-> FALSE, triples |-> {}]

Graph(ts) == [present |-> TRUE, triples |-> ts]

\* Optional[AsyncRdf4j]: 0 is None, n > 0 is the n-th client object.
NoClient == 0

\* Optional[AsyncRdf4JRepository]: a handle knows its id and its client.
NoRepo == [id |-> None, client |-> NoClient]

RepoHandle(id, client) == [id |-> id, client |-> client]

\* The record of a call.
Call(op, arg, outcome, target, value, resolved) ==
    [op |-> op, arg |-> arg, outcome |-> outcome, target |-> target,
     value |-> value, resolved |-> resolved]

NoCall == Call("none", None, "ok", None, None, 0)

\* The engine's part in a call: the query text handed to it (None when the
\* call hands it none) and the number of engine invocations the call made.
Engine(query, calls) == [query |-> query, calls |-> calls]

NoEngine == Engine(None, 0)

\* No conversion applied yet.
NoEval == [fn |-> "none", input |-> None, output |-> None]

\* Settings: the fields the server reads at construction and at start.
Settings(backend_type, default_limit) ==
    [backend_type |-> backend_type, default_limit |-> default_limit]

\* Optional[Settings]: None.
NoSettings == Settings(None, 0)

\* Optional[Backend]: 0 is None, n > 0 is the n-th backend object created.
NoBackend == 0

\* The process: config._settings, and the server object created last with
\* its _settings and _backend; the backend objects created so far, those
\* connected and those closed; whether start() has succeeded with no stop()
\* since.
Process(settings, server_settings, backend, nextBackend, connected, closed, started) ==
    [settings |-> settings, server_settings |-> server_settings, backend |-> backend,
     nextBackend |-> nextBackend, connected |-> connected, closed |-> closed,
     started |-> started]

\* A fresh process: no settings, no server.
NoServer == Process(NoSettings, NoSettings, NoBackend, 1, {}, {}, FALSE)

\* No task is running.
NoTasks == << >>

Init ==
    /\ adapter \in {"local", "remote"}
    /\ l_store_path \in (IF adapter = "local" THEN StorePaths ELSE {None})
    /\ l_graph = NoGraph
    /\ l_repository_id = "local"
    /\ r_default_repository \in
           (IF adapter = "remote" THEN RepoIds \cup {None} ELSE {None})
    /\ r_current_repository = r_default_repository
    /\ r_client = NoClient
    /\ r_repo = NoRepo
    /\ openClients = {}
    /\ nextClient = 1
    /\ serverRepos \in (IF adapter = "remote" THEN SUBSET RepoIds ELSE {{}})
    /\ res = NoCall
    /\ life = "new"
    /\ connFailed = FALSE
    /\ eng = NoEngine
    /\ store = {}
    /\ eval = NoEval
    /\ srv = NoServer
    /\ tasks = NoTasks

\* ------------------------------------------------------------ engine terms
\* An engine-native term: its class, its value, term.language, term.datatype.
Term(kind, value, language, datatype) ==
    [kind |-> kind, value |-> value, language |-> language, datatype |-> datatype]

\* Python None as the value of a row position (an unbound variable).
NoTerm == Term("none", << >>, None, None)

\* A Python object that is no RDF term (a bound method, a dict).
Other(repr) == Term("other", << repr >>, None, None)

\* Names that Python finds on a rdflib ResultRow before its __getattr__ is
\* asked: the tuple methods, the row's own methods and its labels dict.
ResultRowAttributes == {"count", "index", "labels", "asdict", "get"}

\* First position of a variable in the result's variables (ResultRow.labels).
Label(variables, name) == CHOOSE i \in 1..Len(variables) : variables[i] = name

\* getattr(row, name, None) on a rdflib ResultRow.
GetAttr(row, variables, name) ==
    IF name \in ResultRowAttributes THEN Other(name)
    ELSE IF \E i \in 1..Len(variables) : variables[i] = name
    THEN row[Label(variables, name)]
    ELSE NoTerm

\* ---------------------------------------------------- in-process adapter
\* Mutant: the None check is dropped.
L_ensure_connected_always(graph) == TRUE

\* LocalBackend._ensure_connected: the graph, unless it is None.
L_ensure_connected(graph) == graph.present

\* rdflib's Graph() uses the in-memory store, which accepts mutation.
StoreAcceptsMutation(graph) == graph.present

\* Mutant: the synthetic repository is reported read-only.
L_RepositoryInfo_readonly ==
    [id |-> l_repository_id, title |-> "Local RDF Store", uri |-> l_store_path,
     readable |-> TRUE, writable |-> FALSE]

\* The single RepositoryInfo the in-process adapter reports.
L_RepositoryInfo ==
    [id |-> l_repository_id, title |-> "Local RDF Store", uri |-> l_store_path,
     readable |-> TRUE, writable |-> TRUE]

\* The lifecycle history after a close(): "closed" for the close() that follows
\* a connect(), "closed_again" for a close() with no connect() before it.
AfterClose ==
    life' = (IF life \in {"connect_ok", "connect_failed"} THEN "closed"
             ELSE "closed_again")

\* The lifecycle history after a connect() that ended with `outcome`.
AfterConnect(outcome) ==
    /\ life' = (IF outcome = "ok" THEN "connect_ok" ELSE "connect_failed")
    /\ connFailed' = (connFailed \/ outcome # "ok")

L_connect ==
    /\ adapter = "local"
    /\ IF Truthy(l_store_path)
       THEN IF FileParses(l_store_path)
            THEN /\ l_graph' = Graph(FileTriples(l_store_path))
                 /\ res' = Call("connect", None, "ok", None, None, 0)
                 /\ AfterConnect("ok")
            ELSE \* Graph.parse raises; the graph assigned before it stays,
                 \* holding whatever the parser added before the error
                 /\ \E parsed \in SUBSET FileTriples(l_store_path) :
                        l_graph' = Graph(parsed)
                 /\ res' = Call("connect", None, "LoadError", None, None, 0)
                 /\ AfterConnect("LoadError")
       ELSE /\ l_graph' = Graph({})
            /\ res' = Call("connect", None, "ok", None, None, 0)
            /\ AfterConnect("ok")
    /\ eng' = NoEngine
    /\ UNCHANGED << dataVars, adapter, l_store_path, l_repository_id, remoteVars, serverRepos >>

L_close ==
    /\ adapter = "local"
    /\ l_graph' = NoGraph
    /\ res' = Call("close", None, "ok", None, None, 0)
    /\ AfterClose
    /\ eng' = NoEngine
    /\ UNCHANGED << dataVars, adapter, l_store_path, l_repository_id, remoteVars,
                    serverRepos, connFailed >>

\* A call that leaves the in-process backend as it is, reports `call` and
\* used the engine as `engine` says.
L_Ran(call, engine) ==
    /\ adapter = "local"
    /\ res' = call
    /\ eng' = engine
    /\ UNCHANGED << dataVars, adapter, localVars, remoteVars, serverRepos, life,
                    connFailed >>

\* A call that leaves the in-process backend as it is and reports `call`,
\* without an engine invocation.
L_Returns(call) == L_Ran(call, NoEngine)

L_list_repositories ==
    /\ adapter = "local"
    /\ L_Returns(Call("list_repositories", None, "ok", None, << L_RepositoryInfo >>, 0))

\* Mutant: an unknown id is accepted silently.
L_select_repository_silent ==
    \E repository_id \in LocalCallIds :
        L_Returns(Call("select_repository", repository_id, "ok", None, None, 0))

L_select_repository ==
    \E repository_id \in LocalCallIds :
        IF repository_id # l_repository_id
        THEN L_Returns(Call("select_repository", repository_id, "ValueError",
                            None, None, 0))
        ELSE L_Returns(Call("select_repository", repository_id, "ok",
                            None, None, 0))

L_get_current_repository ==
    /\ adapter = "local"
    /\ L_Returns(Call("get_current_repository", None, "ok", None, l_repository_id, 0))

\* What a call of an operation reports and how it used the engine.
Ran(call, engine) == [call |-> call, engine |-> engine]

\* Mutant: the query methods reject an id that select_repository rejects.
L_QueryCall_checked(op, query, repository_id) ==
    IF ~L_ensure_connected(l_graph)
    THEN Ran(Call(op, repository_id, "NotConnected", None, None, 0), NoEngine)
    ELSE IF repository_id # None /\ repository_id # l_repository_id
    THEN Ran(Call(op, repository_id, "ValueError", None, None, 0), NoEngine)
    ELSE IF ~WellFormed(query)
    THEN Ran(Call(op, repository_id, "QuerySyntaxError", l_repository_id, None, 0),
             Engine(query, 1))
    ELSE Ran(Call(op, repository_id, "ok", l_repository_id, op, 0),
             Engine(query, 1))

\* graph = self._ensure_connected(); result = graph.query(query)
\* repository_id is a parameter the body never reads.
L_QueryCall(op, query, repository_id) ==
    IF ~L_ensure_connected(l_graph)
    THEN Ran(Call(op, repository_id, "NotConnected", None, None, 0), NoEngine)
    ELSE IF ~WellFormed(query)
    THEN Ran(Call(op, repository_id, "QuerySyntaxError", l_repository_id, None, 0),
             Engine(query, 1))
    ELSE Ran(Call(op, repository_id, "ok", l_repository_id, op, 0),
             Engine(query, 1))

L_Query(op, query, repository_id) ==
    L_Ran(L_QueryCall(op, query, repository_id).call,
          L_QueryCall(op, query, repository_id).engine)

L_sparql_select ==
    /\ adapter = "local"
    /\ \E query \in Queries, repository_id \in LocalCallIds \cup {None} :
           L_Query("sparql_select", query, repository_id)

L_sparql_construct ==
    /\ adapter = "local"
    /\ \E query \in Queries, repository_id \in LocalCallIds \cup {None} :
           L_Query("sparql_construct", query, repository_id)

L_sparql_ask ==
    /\ adapter = "local"
    /\ \E query \in Queries, repository_id \in LocalCallIds \cup {None} :
           L_Query("sparql_ask", query, repository_id)

\* graph = self._ensure_connected(); graph.namespaces()
L_NamespacesCall(repository_id) ==
    IF ~L_ensure_connected(l_graph)
    THEN Ran(Call("get_namespaces", repository_id, "NotConnected", None, None, 0),
             NoEngine)
    ELSE Ran(Call("get_namespaces", repository_id, "ok", l_repository_id,
                  "get_namespaces", 0),
             Engine(None, 1))

L_get_namespaces ==
    /\ adapter = "local"
    /\ \E repository_id \in LocalCallIds \cup {None} :
           L_Ran(L_NamespacesCall(repository_id).call,
                 L_NamespacesCall(repository_id).engine)

\* base.StatisticsInfo
StatisticsInfo(total_statements, total_classes, total_properties, total_subjects, total_objects) ==
    [total_statements |-> total_statements, total_classes |-> total_classes,
     total_properties |-> total_properties, total_subjects |-> total_subjects,
     total_objects |-> total_objects]

\* The number literal of a COUNT aggregate.
Count(n) == Term("literal", << n >>, None, "http://www.w3.org/2001/XMLSchema#integer")

\* The classes and properties that the two counting queries of
\* LocalBackend.get_statistics find in a graph of (s, p, o) triples.
L_Classes(ts) ==
    {t[1] : t \in {u \in ts : u[2] = "rdf:type" /\ u[3] \in {"owl:Class", "rdfs:Class"}}}
        \cup {t[3] : t \in {u \in ts : u[2] = "rdf:type"}}

L_Properties(ts) ==
    {t[1] : t \in {u \in ts : /\ u[2] = "rdf:type"
                              /\ u[3] \in {"rdf:Property", "owl:ObjectProperty",
                                           "owl:DatatypeProperty"}}}
        \cup {t[2] : t \in ts}

\* for row in result: if hasattr(row, "count") and row.count is not None:
\*     total = int(row.count)
\* on the one row of a COUNT query; int() of what is no number raises.
L_CountOf(row, variables) ==
    LET value == GetAttr(row, variables, "count")
    IN  IF value.kind = "none" THEN [ok |-> TRUE, n |-> 0]
        ELSE IF value.kind = "literal" THEN [ok |-> TRUE, n |-> value.value[1]]
        ELSE [ok |-> FALSE, n |-> 0]

\* LocalBackend.get_statistics on a graph: how it ends, what it returns, and
\* the number of graph.query calls it made.
L_Statistics(ts) ==
    LET classes == L_CountOf(<< Count(Cardinality(L_Classes(ts))) >>, << "count" >>)
        props   == L_CountOf(<< Count(Cardinality(L_Properties(ts))) >>, << "count" >>)
    IN  IF ~classes.ok THEN [outcome |-> "TypeError", value |-> None, calls |-> 1]
        ELSE IF ~props.ok THEN [outcome |-> "TypeError", value |-> None, calls |-> 2]
        ELSE [outcome |-> "ok",
              value |-> StatisticsInfo(Cardinality(ts), classes.n, props.n,
                                       Cardinality({t[1] : t \in ts}),
                                       Cardinality({t[3] : t \in ts})),
              calls |-> 2]

L_StatisticsCall(repository_id) ==
    IF ~L_ensure_connected(l_graph)
    THEN Ran(Call("get_statistics", repository_id, "NotConnected", None, None, 0),
             NoEngine)
    ELSE Ran(Call("get_statistics", repository_id,
                  L_Statistics(l_graph.triples).outcome, l_repository_id,
                  L_Statistics(l_graph.triples).value, 0),
             Engine(None, L_Statistics(l_graph.triples).calls))

L_get_statistics ==
    /\ adapter = "local"
    /\ \E repository_id \in LocalCallIds \cup {None} :
           L_Ran(L_StatisticsCall(repository_id).call,
                 L_StatisticsCall(repository_id).engine)

\* The limit get_schema_summary hands to its two searches.
SummaryLimit == 50

\* Backend.get_schema_summary: the calls it awaits, in the order of the
\* method's body, with the limit it hands to each (0: the call takes none).
SummarySteps ==
    << [op |-> "search_classes", limit |-> SummaryLimit],
       [op |-> "search_properties", limit |-> SummaryLimit],
       [op |-> "get_statistics", limit |-> 0],
       [op |-> "get_namespaces", limit |-> 0] >>

\* The keys of the dict get_schema_summary returns.
SummaryKeys == {"statistics", "classes", "properties", "namespaces"}

\* One call of get_schema_summary as it ran.
Step(op, limit, repository_id, outcome) ==
    [op |-> op, limit |-> limit, repository_id |-> repository_id,
     outcome |-> outcome]

\* Mutant: an error of one call is swallowed and the next call is made.
StepsRun_all(ran) == Len(ran)

\* How many of the calls are made when ran[i] is how the i-th ends: every
\* one is awaited in turn, and the first that raises ends the method.
StepsRun(ran) ==
    IF \E i \in 1..Len(ran) : ran[i].outcome # "ok"
    THEN CHOOSE i \in 1..Len(ran) :
             /\ ran[i].outcome # "ok"
             /\ \A j \in 1..(i - 1) : ran[j].outcome = "ok"
    ELSE Len(ran)

\* get_schema_summary(repository_id) when ran[i] is how its i-th call ends
\* on the backend: the calls made, how the method ends, the keys of what it
\* returns, and the engine invocations and handle resolutions it caused.
Summary(repository_id, ran) ==
    LET n == StepsRun(ran)
        calls(i) == IF i <= n THEN ran[i].calls ELSE 0
        resolved(i) == IF i <= n THEN ran[i].resolved ELSE 0
    IN  [outcome |-> ran[n].outcome,
         steps |-> [i \in 1..n |-> Step(SummarySteps[i].op, SummarySteps[i].limit,
                                        repository_id, ran[i].outcome)],
         keys |-> IF ran[n].outcome = "ok" THEN SummaryKeys ELSE {},
         calls |-> calls(1) + calls(2) + calls(3) + calls(4),
         resolved |-> resolved(1) + resolved(2) + resolved(3) + resolved(4)]

\* One call of get_schema_summary on the in-process backend: the searches are
\* sparql_select of a query the method builds, get_statistics and
\* get_namespaces as above.
L_SummaryStep(op) ==
    IF ~L_ensure_connected(l_graph)
    THEN [outcome |-> "NotConnected", calls |-> 0, resolved |-> 0]
    ELSE IF op = "get_statistics"
    THEN [outcome |-> L_Statistics(l_graph.triples).outcome,
          calls |-> L_Statistics(l_graph.triples).calls, resolved |-> 0]
    ELSE [outcome |-> "ok", calls |-> 1, resolved |-> 0]

L_get_schema_summary ==
    /\ adapter = "local"
    /\ \E repository_id \in LocalCallIds \cup {None} :
           LET summary == Summary(repository_id,
                                  [i \in 1..Len(SummarySteps) |->
                                      L_SummaryStep(SummarySteps[i].op)])
           IN  L_Ran(Call("get_schema_summary", repository_id, summary.outcome,
                          IF summary.calls > 0 THEN l_repository_id ELSE None,
                          [steps |-> summary.steps, keys |-> summary.keys], 0),
                     Engine(None, summary.calls))

\* graph = self._ensure_connected(); before = len(graph); graph.parse(...);
\* return len(graph) - before
L_Load(op, arg, triples, parses) ==
    /\ adapter = "local"
    /\ IF ~L_ensure_connected(l_graph)
       THEN /\ res' = Call(op, arg, "NotConnected", None, None, 0)
            /\ l_graph' = l_graph
       ELSE IF parses
       THEN /\ l_graph' = Graph(l_graph.triples \cup triples)
            /\ res' = Call(op, arg, "ok", None,
                           Cardinality(l_graph.triples \cup triples)
                               - Cardinality(l_graph.triples), 0)
       ELSE /\ \E parsed \in SUBSET triples :
                    l_graph' = Graph(l_graph.triples \cup parsed)
            /\ res' = Call(op, arg, "LoadError", None, None, 0)
    /\ eng' = NoEngine
    /\ UNCHANGED << dataVars, adapter, l_store_path, l_repository_id, remoteVars,
                    serverRepos, life, connFailed >>

L_load_file ==
    /\ adapter = "local"
    /\ \E file_path \in StorePaths \ {None} :
           L_Load("load_file", file_path, FileTriples(file_path), FileParses(file_path))

L_load_data ==
    /\ adapter = "local"
    /\ \E data \in Docs :
           L_Load("load_data", data, data.triples, data.ok)

LocalNext ==
    \/ L_connect
    \/ L_close
    \/ L_list_repositories
    \/ L_select_repository
    \/ L_get_current_repository
    \/ L_sparql_select
    \/ L_sparql_construct
    \/ L_sparql_ask
    \/ L_get_namespaces
    \/ L_get_statistics
    \/ L_get_schema_summary
    \/ L_load_file
    \/ L_load_data

\* ------------------------------------------------------ networked adapter
\* RemoteBackend._ensure_connected: the client, unless it is None.
R_ensure_connected(client) == client # NoClient

\* AsyncRdf4j.get_repository as the adapter relies on it: a handle bound to
\* the client, or an error when the server rejects the id.
ClientGetRepository(client, repo_id) ==
    IF repo_id \in serverRepos
    THEN [outcome |-> "ok", repo |-> RepoHandle(repo_id, client), resolved |-> 1]
    ELSE [outcome |-> "RepositoryNotFound", repo |-> NoRepo, resolved |-> 1]

\* Mutant: the cached handle is returned whenever there is one, whatever id
\* the call names.
R_get_repository_cache_first(repository_id) ==
    IF ~R_ensure_connected(r_client)
    THEN [outcome |-> "NotConnected", repo |-> NoRepo, resolved |-> 0]
    ELSE LET repo_id == IF Truthy(repository_id) THEN repository_id
                        ELSE r_current_repository
         IN  IF repo_id = None
             THEN [outcome |-> "ValueError", repo |-> NoRepo, resolved |-> 0]
             ELSE IF r_repo # NoRepo
             THEN [outcome |-> "ok", repo |-> r_repo, resolved |-> 0]
             ELSE ClientGetRepository(r_client, repo_id)

\* RemoteBackend._get_repository
R_get_repository(repository_id) ==
    IF ~R_ensure_connected(r_client)
    THEN [outcome |-> "NotConnected", repo |-> NoRepo, resolved |-> 0]
    ELSE LET repo_id == IF Truthy(repository_id) THEN repository_id
                        ELSE r_current_repository
         IN  IF repo_id = None
             THEN [outcome |-> "ValueError", repo |-> NoRepo, resolved |-> 0]
             ELSE IF r_repo # NoRepo /\ r_current_repository = repo_id
             THEN [outcome |-> "ok", repo |-> r_repo, resolved |-> 0]
             ELSE ClientGetRepository(r_client, repo_id)

\* An engine invocation through a repository handle (repo.query, repo.size,
\* repo.get_namespaces): how it ends.
EngineRun(repo, query) ==
    IF repo.client \notin openClients THEN "EngineUnavailable"
    ELSE IF repo.id \notin serverRepos THEN "RepositoryNotFound"
    ELSE IF query # None /\ ~WellFormed(query) THEN "QuerySyntaxError"
    ELSE "ok"

R_connect ==
    /\ adapter = "remote"
    /\ nextClient <= MaxClients
    /\ r_client' = nextClient
    /\ openClients' = openClients \cup {nextClient}
    /\ nextClient' = nextClient + 1
    /\ IF Truthy(r_default_repository)
       THEN LET got == ClientGetRepository(nextClient, r_default_repository)
            IN  IF got.outcome = "ok"
                THEN /\ r_repo' = got.repo
                     /\ r_current_repository' = r_default_repository
                     /\ res' = Call("connect", None, "ok", None, None, 1)
                     /\ AfterConnect("ok")
                ELSE /\ UNCHANGED << r_repo, r_current_repository >>
                     /\ res' = Call("connect", None, got.outcome, None, None, 1)
                     /\ AfterConnect(got.outcome)
       ELSE /\ UNCHANGED << r_repo, r_current_repository >>
            /\ res' = Call("connect", None, "ok", None, None, 0)
            /\ AfterConnect("ok")
    /\ eng' = NoEngine
    /\ UNCHANGED << dataVars, adapter, localVars, r_default_repository, serverRepos >>

\* Mutant: close() without the `if self._client` guard raises on a backend
\* that holds no client.
R_close_unguarded ==
    /\ adapter = "remote"
    /\ IF r_client # NoClient
       THEN /\ openClients' = openClients \ {r_client}
            /\ r_client' = NoClient
            /\ r_repo' = NoRepo
            /\ res' = Call("close", None, "ok", None, None, 0)
       ELSE /\ UNCHANGED << openClients, r_client, r_repo >>
            /\ res' = Call("close", None, "AttributeError", None, None, 0)
    /\ AfterClose
    /\ eng' = NoEngine
    /\ UNCHANGED << dataVars, adapter, localVars, r_default_repository,
                    r_current_repository, nextClient, serverRepos, connFailed >>

\* Mutant: close() also resets the session default to the configured one.
R_close_resets_default ==
    /\ adapter = "remote"
    /\ IF r_client # NoClient
       THEN /\ openClients' = openClients \ {r_client}
            /\ r_client' = NoClient
            /\ r_repo' = NoRepo
            /\ r_current_repository' = r_default_repository
       ELSE UNCHANGED << openClients, r_client, r_repo, r_current_repository >>
    /\ res' = Call("close", None, "ok", None, None, 0)
    /\ AfterClose
    /\ eng' = NoEngine
    /\ UNCHANGED << dataVars, adapter, localVars, r_default_repository, nextClient,
                    serverRepos, connFailed >>

R_close ==
    /\ adapter = "remote"
    /\ IF r_client # NoClient
       THEN /\ openClients' = openClients \ {r_client}
            /\ r_client' = NoClient
            /\ r_repo' = NoRepo
       ELSE UNCHANGED << openClients, r_client, r_repo >>
    /\ res' = Call("close", None, "ok", None, None, 0)
    /\ AfterClose
    /\ eng' = NoEngine
    /\ UNCHANGED << dataVars, adapter, localVars, r_default_repository,
                    r_current_repository, nextClient, serverRepos, connFailed >>

\* A call that leaves the networked backend as it is, reports `call` and
\* used the engine as `engine` says.
R_Ran(call, engine) ==
    /\ adapter = "remote"
    /\ res' = call
    /\ eng' = engine
    /\ UNCHANGED << dataVars, adapter, localVars, remoteVars, serverRepos, life,
                    connFailed >>

\* A call that leaves the networked backend as it is and reports `call`,
\* without an engine invocation.
R_Returns(call) == R_Ran(call, NoEngine)

R_list_repositories ==
    IF ~R_ensure_connected(r_client)
    THEN R_Returns(Call("list_repositories", None, "NotConnected", None, None, 0))
    ELSE R_Returns(Call("list_repositories", None, "ok", None, serverRepos, 0))

\* Mutant: the session default is set before the handle is resolved.
R_select_repository_eager ==
    \E repository_id \in RepoIds :
        /\ adapter = "remote"
        /\ IF ~R_ensure_connected(r_client)
           THEN /\ res' = Call("select_repository", repository_id, "NotConnected",
                               None, None, 0)
                /\ UNCHANGED << r_repo, r_current_repository >>
           ELSE LET got == ClientGetRepository(r_client, repository_id)
                IN  /\ r_current_repository' = repository_id
                    /\ r_repo' = (IF got.outcome = "ok" THEN got.repo ELSE r_repo)
                    /\ res' = Call("select_repository", repository_id,
                                   got.outcome, None, None, 1)
        /\ eng' = NoEngine
        /\ UNCHANGED << dataVars, adapter, localVars, r_default_repository, r_client,
                        openClients, nextClient, serverRepos, life, connFailed >>

R_select_repository ==
    \E repository_id \in RepoIds :
        /\ adapter = "remote"
        /\ IF ~R_ensure_connected(r_client)
           THEN /\ res' = Call("select_repository", repository_id, "NotConnected",
                               None, None, 0)
                /\ UNCHANGED << r_repo, r_current_repository >>
           ELSE LET got == ClientGetRepository(r_client, repository_id)
                IN  IF got.outcome = "ok"
                    THEN /\ r_repo' = got.repo
                         /\ r_current_repository' = repository_id
                         /\ res' = Call("select_repository", repository_id, "ok",
                                        None, None, 1)
                    ELSE /\ UNCHANGED << r_repo, r_current_repository >>
                         /\ res' = Call("select_repository", repository_id,
                                        got.outcome, None, None, 1)
        /\ eng' = NoEngine
        /\ UNCHANGED << dataVars, adapter, localVars, r_default_repository, r_client,
                        openClients, nextClient, serverRepos, life, connFailed >>

R_get_current_repository ==
    /\ adapter = "remote"
    /\ R_Returns(Call("get_current_repository", None, "ok", None,
                      r_current_repository, 0))

\* repo = await self._get_repository(repository_id), then the engine calls
\* of the method through repo: `calls` of them when none raises, and only the
\* first when the engine fails (every one is awaited before the next).
R_Invoke(op, query, repository_id, calls) ==
    LET got == R_get_repository(repository_id)
    IN  IF got.outcome # "ok"
        THEN R_Returns(Call(op, repository_id, got.outcome, None, None,
                            got.resolved))
        ELSE LET ran == EngineRun(got.repo, query)
             IN  R_Ran(Call(op, repository_id, ran, got.repo.id,
                            IF ran = "ok" THEN op ELSE None, got.resolved),
                       Engine(query, IF ran = "ok" THEN calls ELSE 1))

\* Mutant: a query the engine fails is sent a second time before the error
\* is reported.
R_Query_retry(op, query, repository_id) ==
    LET got == R_get_repository(repository_id)
    IN  IF got.outcome # "ok"
        THEN R_Returns(Call(op, repository_id, got.outcome, None, None,
                            got.resolved))
        ELSE LET ran == EngineRun(got.repo, query)
             IN  R_Ran(Call(op, repository_id, ran, got.repo.id,
                            IF ran = "ok" THEN op ELSE None, got.resolved),
                       Engine(query, IF ran = "ok" THEN 1 ELSE 2))

\* repo = await self._get_repository(repository_id); await repo.query(query)
R_Query(op, query, repository_id) == R_Invoke(op, query, repository_id, 1)

R_sparql_select ==
    /\ adapter = "remote"
    /\ \E query \in Queries, repository_id \in RepoIds \cup {None} :
           R_Query("sparql_select", query, repository_id)

R_sparql_construct ==
    /\ adapter = "remote"
    /\ \E query \in Queries, repository_id \in RepoIds \cup {None} :
           R_Query("sparql_construct", query, repository_id)

R_sparql_ask ==
    /\ adapter = "remote"
    /\ \E query \in Queries, repository_id \in RepoIds \cup {None} :
           R_Query("sparql_ask", query, repository_id)

\* repo.get_namespaces(): one engine call, no query text
R_get_namespaces ==
    /\ adapter = "remote"
    /\ \E repository_id \in RepoIds \cup {None} :
           R_Invoke("get_namespaces", None, repository_id, 1)

\* Engine calls of RemoteBackend.get_statistics: repo.size() and the four
\* COUNT queries.
R_StatisticsCalls == 5

R_get_statistics ==
    /\ adapter = "remote"
    /\ \E repository_id \in RepoIds \cup {None} :
           R_Invoke("get_statistics", None, repository_id, R_StatisticsCalls)

\* One call of get_schema_summary on the networked backend: each resolves
\* the handle for itself and then invokes the engine, the searches with a
\* query the method builds.
R_SummaryStep(op, repository_id) ==
    LET got == R_get_repository(repository_id)
        ran == EngineRun(got.repo, IF op \in {"search_classes", "search_properties"}
                                   THEN "wellformed" ELSE None)
    IN  IF got.outcome # "ok"
        THEN [outcome |-> got.outcome, calls |-> 0, resolved |-> got.resolved]
        ELSE [outcome |-> ran,
              calls |-> IF ran = "ok" /\ op = "get_statistics"
                        THEN R_StatisticsCalls ELSE 1,
              resolved |-> got.resolved]

R_get_schema_summary ==
    /\ adapter = "remote"
    /\ \E repository_id \in RepoIds \cup {None} :
           LET summary == Summary(repository_id,
                                  [i \in 1..Len(SummarySteps) |->
                                      R_SummaryStep(SummarySteps[i].op, repository_id)])
           IN  R_Ran(Call("get_schema_summary", repository_id, summary.outcome,
                          IF summary.calls > 0
                          THEN R_get_repository(repository_id).repo.id ELSE None,
                          [steps |-> summary.steps, keys |-> summary.keys],
                          summary.resolved),
                     Engine(None, summary.calls))

\* The server's catalog changes between calls (repositories created, dropped).
ServerChange ==
    /\ adapter = "remote"
    /\ \E catalog \in SUBSET RepoIds :
           /\ catalog # serverRepos
           /\ serverRepos' = catalog
    /\ UNCHANGED << dataVars, adapter, localVars, remoteVars, res, life, connFailed, eng >>

RemoteNext ==
    \/ R_connect
    \/ R_close
    \/ R_list_repositories
    \/ R_select_repository
    \/ R_get_current_repository
    \/ R_sparql_select
    \/ R_sparql_construct
    \/ R_sparql_ask
    \/ R_get_namespaces
    \/ R_get_statistics
    \/ R_get_schema_summary
    \/ ServerChange

Next == LocalNext \/ RemoteNext

Spec == Init /\ [][Next]_vars

\* ------------------------------------------------------------ vocabulary
SparqlOps == {"sparql_select", "sparql_construct", "sparql_ask"}

QueryOps == SparqlOps \cup {"get_namespaces", "get_statistics"}

ContractOps == QueryOps \cup {"list_repositories", "select_repository",
                              "get_current_repository"}

\* The last lifecycle call was a close(), or there was none yet.
NotInWindow == life \in {"new", "closed", "closed_again"}

\* What a backend holds: every field of the instance and the clients it opened.
backendState == << l_store_path, l_graph, l_repository_id, r_default_repository,
                   r_current_repository, r_client, r_repo, openClients >>

\* ------------------------------------------------------------------ claims

\* C1: on both adapters, while no connect() has failed, sparql_select,
\* sparql_construct and sparql_ask raise the not-connected error exactly when
\* the last lifecycle call is not a connect(): before the first connect() and
\* after a close(), and never between a connect() and the next close().
C1_NotConnectedOutsideWindow ==
    (res.op \in SparqlOps /\ ~connFailed)
        => (res.outcome = "NotConnected" <=> life # "connect_ok")

\* C1 witness: a SPARQL call on a networked backend that was connected and
\* then closed raised the not-connected error.
C1_Witness ==
    /\ adapter = "remote"
    /\ life = "closed"
    /\ ~connFailed
    /\ res.op \in SparqlOps
    /\ res.outcome = "NotConnected"

\* C2 (as claimed): every contract operation invoked on a backend that was
\* never connected, or was closed, fails with the not-connected error.
C2_EveryOperationNeedsConnection ==
    (res.op \in ContractOps /\ NotInWindow) => res.outcome = "NotConnected"

C4_FailedConnectReleasesHandle ==
    life = "connect_failed" =>
        /\ l_graph = NoGraph
        /\ r_client = NoClient
        /\ res.op \in QueryOps => res.outcome = "NotConnected"

\* C5 (as claimed): while every connect() succeeds, a connected networked
\* backend holds exactly one open client, however many times connect() was
\* called, and a closed one holds none.
C5_ConnectIsIdempotent ==
    (adapter = "remote" /\ ~connFailed) =>
        /\ life = "connect_ok" => Cardinality(openClients) = 1
        /\ life \in {"closed", "closed_again"} => openClients = {}

\* C6: on the networked adapter a query, namespace or statistics call that
\* names a repositoryId leaves the session default and the cached handle as
\* they were, whatever its outcome; a call that reaches the engine reaches the
\* repository it named, and one that names none reaches the session default.
C6_ExplicitIdIsPerCall ==
    /\ [][(adapter = "remote" /\ res'.op \in QueryOps /\ res'.arg # None)
            => /\ r_current_repository' = r_current_repository
               /\ r_repo' = r_repo]_vars
    /\ []((adapter = "remote" /\ res.op \in QueryOps /\ res.target # None)
            => res.target = (IF res.arg # None THEN res.arg
                             ELSE r_current_repository))

\* C6 witness: a call naming a repository other than the selected one ran
\* against the named one while another handle stays cached.
C6_Witness ==
    /\ adapter = "remote"
    /\ res.op \in QueryOps
    /\ res.outcome = "ok"
    /\ res.arg # None
    /\ res.arg # r_current_repository
    /\ res.target = res.arg
    /\ r_repo # NoRepo
    /\ r_repo.id = r_current_repository

\* C7: on the networked adapter a select_repository(id) that succeeds makes
\* id the session default and caches the handle resolved for id through the
\* current client; one that raises leaves the session default and the cached
\* handle as they were.
C7_SelectCommitsOrLeaves ==
    [][(adapter = "remote" /\ res'.op = "select_repository")
         => IF res'.outcome = "ok"
            THEN /\ r_current_repository' = res'.arg
                 /\ r_repo' = RepoHandle(res'.arg, r_client)
            ELSE /\ r_current_repository' = r_current_repository
                 /\ r_repo' = r_repo]_vars

\* C7 witness: the server rejected the id of a select_repository on a backend
\* that has another repository selected and cached.
C7_Witness ==
    /\ adapter = "remote"
    /\ res.op = "select_repository"
    /\ res.outcome = "RepositoryNotFound"
    /\ r_repo # NoRepo
    /\ r_current_repository # res.arg
    /\ r_repo.id = r_current_repository

C9_LocalSelectRepository ==
    /\ []((adapter = "local" /\ res.op = "select_repository")
            => res.outcome = (IF res.arg = "local" THEN "ok" ELSE "ValueError"))
    /\ [][(adapter = "local" /\ res'.op = "select_repository")
            => /\ l_repository_id' = l_repository_id
               /\ l_graph' = l_graph]_vars

\* C9 witness: select_repository("nonexistent") raised on a connected
\* in-process backend.
C9_Witness ==
    /\ adapter = "local"
    /\ l_graph.present
    /\ res.op = "select_repository"
    /\ res.arg = "nonexistent"
    /\ res.outcome = "ValueError"

\* C10: on a connected in-process backend list_repositories returns exactly
\* one entry, with id "local", readable, and writable exactly when the store
\* accepts mutation, and get_current_repository returns "local".
C10_SingleLocalRepository ==
    (adapter = "local" /\ l_graph.present) =>
        /\ res.op = "list_repositories" =>
              /\ res.outcome = "ok"
              /\ Len(res.value) = 1
              /\ res.value[1].id = "local"
              /\ res.value[1].readable
              /\ res.value[1].writable <=> StoreAcceptsMutation(l_graph)
        /\ res.op = "get_current_repository" =>
              /\ res.outcome = "ok"
              /\ res.value = "local"
              /\ l_repository_id = "local"

\* C10 witness: list_repositories was called on an in-process backend that
\* had data loaded.
C10_Witness ==
    /\ adapter = "local"
    /\ l_graph.present
    /\ l_graph.triples # {}
    /\ res.op = "list_repositories"
    /\ Len(res.value) = 1

\* Outcomes that are failures of the engine invocation itself.
EngineFailures == {"QuerySyntaxError", "RepositoryNotFound", "EngineUnavailable"}

\* C12: a SPARQL call that the engine fails is reported after exactly one
\* engine invocation, with the backend still connected and everything it
\* holds unchanged; and a well-formed query to the same repository right
\* after a syntax error succeeds (the repository still being on the server).
C12_FailedQueryNoRetry ==
    /\ []((res.op \in SparqlOps /\ res.target # None
              /\ res.outcome \in EngineFailures)
            => /\ eng.calls = 1
               /\ IF adapter = "local" THEN L_ensure_connected(l_graph)
                  ELSE R_ensure_connected(r_client))
    /\ [][(res'.op \in SparqlOps /\ res'.outcome \in EngineFailures)
            => backendState' = backendState]_vars
    /\ [][(/\ res.op \in SparqlOps
           /\ res.outcome = "QuerySyntaxError"
           /\ res'.op \in SparqlOps
           /\ res'.arg = res.arg
           /\ eng'.query # None
           /\ WellFormed(eng'.query)
           /\ adapter = "remote" => res.target \in serverRepos)
            => res'.outcome = "ok"]_vars

\* C12 witness: the networked adapter reported a syntax error of a query it
\* sent once through the cached handle.
C12_Witness ==
    /\ adapter = "remote"
    /\ res.op = "sparql_select"
    /\ res.outcome = "QuerySyntaxError"
    /\ eng = Engine("malformed", 1)
    /\ r_repo # NoRepo
    /\ res.target = r_repo.id

\* ===================================================== terms and results
\* ------------------------------------------------------------------ bounds
\* Longest literal value, in characters.
MaxStrLen == 2

\* --------------------------------------------------------- term universes
\* Characters of literal values: a plain one, the two that _format_term
\* escapes, and a line break.
Chars == {"a", "\"", "\\", "\n"}

\* Literal values: strings of characters.
StrValues == UNION { [1..n -> Chars] : n \in 0..MaxStrLen }

XSD_STRING == "http://www.w3.org/2001/XMLSchema#string"

XSD_INTEGER == "http://www.w3.org/2001/XMLSchema#integer"

RDF_LANGSTRING == "http://www.w3.org/1999/02/22-rdf-syntax-ns#langString"

\* IRIs and blank node labels are strings of one symbol.
IriValues == {<< "http://example.org/alice" >>, << "http://example.org/Person" >>}

BlankLabels == {<< "b0" >>, << "b1" >>}

Languages == {"en"}

\* rdflib terms: URIRef, BNode, and Literal, which carries a language or a
\* datatype or neither.
RdflibLiterals ==
    {Term("literal", v, l, None) : v \in StrValues, l \in Languages}
        \cup {Term("literal", v, None, d) : v \in StrValues,
                                            d \in {None, XSD_STRING, XSD_INTEGER}}

RdflibTerms ==
    {Term("iri", v, None, None) : v \in IriValues}
        \cup {Term("bnode", v, None, None) : v \in BlankLabels}
        \cup RdflibLiterals

\* pyoxigraph terms: NamedNode, BlankNode, and Literal, whose datatype is
\* always set: xsd:string for a plain one, rdf:langString for a tagged one.
OxLiterals ==
    {Term("literal", v, l, RDF_LANGSTRING) : v \in StrValues, l \in Languages}
        \cup {Term("literal", v, None, d) : v \in StrValues,
                                            d \in {XSD_STRING, XSD_INTEGER}}

OxTerms ==
    {Term("iri", v, None, None) : v \in IriValues}
        \cup {Term("bnode", v, None, None) : v \in BlankLabels}
        \cup OxLiterals

\* ------------------------------------------------------ term normalization
\* The portable term: "type", "value", and "xml:lang" / "datatype", which are
\* None when the key is absent.
TermDict(type, value, lang, datatype) ==
    [type |-> type, value |-> value, lang |-> lang, datatype |-> datatype]

\* RemoteBackend._term_to_dict
R_term_to_dict(term) ==
    IF term.kind = "iri" THEN TermDict("uri", term.value, None, None)
    ELSE IF term.kind = "literal"
    THEN TermDict("literal", term.value,
                  IF Truthy(term.language) THEN term.language ELSE None,
                  IF Truthy(term.datatype) THEN term.datatype ELSE None)
    ELSE IF term.kind = "bnode" THEN TermDict("bnode", term.value, None, None)
    ELSE TermDict("unknown", term.value, None, None)

\* LocalBackend._term_to_dict
L_term_to_dict(term) ==
    IF term.kind = "iri" THEN TermDict("uri", term.value, None, None)
    ELSE IF term.kind = "literal"
    THEN TermDict("literal", term.value,
                  IF Truthy(term.language) THEN term.language ELSE None,
                  IF Truthy(term.datatype) THEN term.datatype ELSE None)
    ELSE IF term.kind = "bnode" THEN TermDict("bnode", term.value, None, None)
    ELSE TermDict("unknown", term.value, None, None)

\* The session variables of a specification that applies conversions only.
NoSession ==
    /\ adapter = "none"
    /\ l_store_path = None
    /\ l_graph = NoGraph
    /\ l_repository_id = "local"
    /\ r_default_repository = None
    /\ r_current_repository = None
    /\ r_client = NoClient
    /\ r_repo = NoRepo
    /\ openClients = {}
    /\ nextClient = 1
    /\ serverRepos = {}
    /\ res = NoCall
    /\ life = "new"
    /\ connFailed = FALSE
    /\ eng = NoEngine
    /\ srv = NoServer
    /\ tasks = NoTasks

\* A conversion applied to an input; each behaviour applies one conversion.
Applied(fn, input, output) == [fn |-> fn, input |-> input, output |-> output]

T_L_term_to_dict ==
    /\ eval.fn = "none"
    /\ \E term \in RdflibTerms :
           eval' = Applied("L_term_to_dict", term, L_term_to_dict(term))
    /\ UNCHANGED << sessionVars, store >>

T_R_term_to_dict ==
    /\ eval.fn = "none"
    /\ \E term \in OxTerms :
           eval' = Applied("R_term_to_dict", term, R_term_to_dict(term))
    /\ UNCHANGED << sessionVars, store >>

\* --------------------------------------------------------- engine results
\* Most rows of an engine result in the inputs.
MaxRows == 2

\* What the engine hands back for a query: og.QuerySolutions / a rdflib
\* SELECT Result (vars, rows), og.QueryTriples (triples), or a truth value.
\* A row is a tuple with one position per variable, NoTerm where unbound.
NativeResult(kind, variables, rows, triples, boolean) ==
    [kind |-> kind, vars |-> variables, rows |-> rows, triples |-> triples,
     boolean |-> boolean]

Solutions(variables, rows) == NativeResult("solutions", variables, rows, << >>, FALSE)

QueryTriples(triples) == NativeResult("triples", << >>, << >>, triples, FALSE)

Boolean(b) == NativeResult("boolean", << >>, << >>, << >>, b)

\* base.QueryResult; `given` names the fields that are not None.
QueryResult(type, given, bindings, triples, boolean, variables) ==
    [type |-> type, given |-> given, bindings |-> bindings, triples |-> triples,
     boolean |-> boolean, variables |-> variables]

\* The keys a binding gets: the variables whose value is not None.
L_BoundKeys(row, variables) ==
    {variables[i] : i \in {j \in 1..Len(variables) :
                              GetAttr(row, variables, variables[j]).kind # "none"}}

\* LocalBackend._bindings_to_dicts: one dict per ResultRow; a result that is
\* no SELECT result yields no ResultRow.
L_bindings_to_dicts(result) ==
    IF result.kind # "solutions" THEN << >>
    ELSE [r \in 1..Len(result.rows) |->
             [k \in L_BoundKeys(result.rows[r], result.vars) |->
                 L_term_to_dict(GetAttr(result.rows[r], result.vars, k))]]

\* The body of LocalBackend.sparql_select after graph.query.
L_sparql_select_result(result) ==
    QueryResult("select", {"bindings", "variables"},
                L_bindings_to_dicts(result), << >>, FALSE,
                IF result.kind = "solutions" THEN result.vars ELSE << >>)

\* The body of LocalBackend.sparql_ask after graph.query: askAnswer is None
\* on a result that is no ASK result.
L_sparql_ask_result(result) ==
    QueryResult("ask", {"boolean"}, << >>, << >>,
                result.kind = "boolean" /\ result.boolean, << >>)

R_BoundKeys(solution, var_names) ==
    {var_names[i] : i \in {j \in 1..Len(var_names) : solution[j].kind # "none"}}

\* Last position of a name in var_names: a later assignment to the same key
\* overwrites an earlier one.
R_LastIndex(solution, var_names, name) ==
    CHOOSE i \in 1..Len(var_names) :
        /\ var_names[i] = name
        /\ solution[i].kind # "none"
        /\ \A j \in (i + 1)..Len(var_names) :
               ~(var_names[j] = name /\ solution[j].kind # "none")

\* RemoteBackend._query_solutions_to_bindings
R_query_solutions_to_bindings(solutions) ==
    [bindings |->
        [r \in 1..Len(solutions.rows) |->
            [k \in R_BoundKeys(solutions.rows[r], solutions.vars) |->
                R_term_to_dict(solutions.rows[r][R_LastIndex(solutions.rows[r],
                                                             solutions.vars, k)])]],
     variables |-> solutions.vars]

\* The body of RemoteBackend.sparql_select after repo.query.
R_sparql_select_result(result) ==
    IF result.kind = "solutions"
    THEN QueryResult("select", {"bindings", "variables"},
                     R_query_solutions_to_bindings(result).bindings, << >>, FALSE,
                     R_query_solutions_to_bindings(result).variables)
    ELSE QueryResult("select", {"bindings", "variables"}, << >>, << >>, FALSE, << >>)

\* Mutant: a truth value of either kind is reported as true.
R_sparql_ask_result_true(result) ==
    QueryResult("ask", {"boolean"}, << >>, << >>, result.kind = "boolean", << >>)

\* The body of RemoteBackend.sparql_ask after repo.query.
R_sparql_ask_result(result) ==
    IF result.kind = "boolean"
    THEN QueryResult("ask", {"boolean"}, << >>, << >>, result.boolean, << >>)
    ELSE QueryResult("ask", {"boolean"}, << >>, << >>, FALSE, << >>)

\* ------------------------------------------------------- Turtle rendering
RECURSIVE Replace(_, _, _)
\* str.replace(old, new) for a one-character old, on a string of characters.
Replace(str, old, new) ==
    IF str = << >> THEN << >>
    ELSE (IF Head(str) = old THEN new ELSE << Head(str) >>)
             \o Replace(Tail(str), old, new)

\* Mutant: the quotes are escaped before the backslashes.
Escaped_quotes_first(value) ==
    Replace(Replace(value, "\"", << "\\", "\"" >>), "\\", << "\\", "\\" >>)

\* term.value.replace("\\", "\\\\").replace('"', '\\"')
Escaped(value) ==
    Replace(Replace(value, "\\", << "\\", "\\" >>), "\"", << "\\", "\"" >>)

\* RemoteBackend._format_term; the text is a string of characters in which an
\* IRI, a blank node label and a language tag are one symbol each.
R_format_term(term) ==
    IF term.kind = "iri" THEN << "<" >> \o term.value \o << ">" >>
    ELSE IF term.kind = "literal"
    THEN IF Truthy(term.language)
         THEN << "\"" >> \o Escaped(term.value) \o << "\"", "@", term.language >>
         ELSE IF Truthy(term.datatype) /\ term.datatype # XSD_STRING
         THEN << "\"" >> \o Escaped(term.value)
                  \o << "\"", "^^", "<", term.datatype, ">" >>
         ELSE << "\"" >> \o Escaped(term.value) \o << "\"" >>
    ELSE IF term.kind = "bnode" THEN << "_:" >> \o term.value
    ELSE term.value

\* og.Triple
Triple(s, p, o) == [subject |-> s, predicate |-> p, object |-> o]

\* f"{s} {p} {o} ."
R_turtle_line(triple) ==
    R_format_term(triple.subject) \o << " " >>
        \o R_format_term(triple.predicate) \o << " " >>
        \o R_format_term(triple.object) \o << " ", "." >>

RECURSIVE Join(_, _)
\* sep.join(lines)
Join(sep, lines) ==
    IF lines = << >> THEN << >>
    ELSE IF Len(lines) = 1 THEN Head(lines)
    ELSE Head(lines) \o << sep >> \o Join(sep, Tail(lines))

\* The body of RemoteBackend.sparql_construct after repo.query.
R_sparql_construct_result(result) ==
    IF result.kind = "triples"
    THEN QueryResult("construct", {"triples"}, << >>,
                     Join("\n", [i \in 1..Len(result.triples) |->
                                    R_turtle_line(result.triples[i])]),
                     FALSE, << >>)
    ELSE QueryResult("construct", {"triples"}, << >>, << >>, FALSE, << >>)

\* -------------------------------------------------- reference Turtle parser
\* The outcome of reading one term: whether it was read, the term, and the
\* position after it.
Parsed(ok, term, next) == [ok |-> ok, term |-> term, next |-> next]

ParseError == Parsed(FALSE, NoTerm, 0)

RECURSIVE ScanString(_, _, _)
\* The body of a short quoted string from position i on (Turtle grammar,
\* STRING_LITERAL_QUOTE): it ends at an unescaped quote, a backslash starts an
\* escape, and a raw line break is not allowed inside it.
ScanString(text, i, acc) ==
    IF i > Len(text) THEN [ok |-> FALSE, value |-> acc, next |-> 0]
    ELSE IF text[i] = "\"" THEN [ok |-> TRUE, value |-> acc, next |-> i + 1]
    ELSE IF text[i] = "\n" THEN [ok |-> FALSE, value |-> acc, next |-> 0]
    ELSE IF text[i] = "\\"
    THEN IF i + 1 <= Len(text) /\ text[i + 1] \in {"\\", "\""}
         THEN ScanString(text, i + 2, Append(acc, text[i + 1]))
         ELSE [ok |-> FALSE, value |-> acc, next |-> 0]
    ELSE ScanString(text, i + 1, Append(acc, text[i]))

\* The literal that starts with the quote at position i.
ParseLiteral(text, i) ==
    LET body == ScanString(text, i + 1, << >>)
        n    == body.next
    IN  IF ~body.ok THEN ParseError
        ELSE IF n + 1 <= Len(text) /\ text[n] = "@"
        THEN Parsed(TRUE, Term("literal", body.value, text[n + 1], RDF_LANGSTRING),
                    n + 2)
        ELSE IF n + 3 <= Len(text) /\ text[n] = "^^" /\ text[n + 1] = "<"
                  /\ text[n + 3] = ">"
        THEN Parsed(TRUE, Term("literal", body.value, None, text[n + 2]), n + 4)
        ELSE Parsed(TRUE, Term("literal", body.value, None, XSD_STRING), n)

\* The term that starts at position i.
ParseTerm(text, i) ==
    IF i > Len(text) THEN ParseError
    ELSE IF text[i] = "<"
    THEN IF i + 2 <= Len(text) /\ text[i + 2] = ">"
         THEN Parsed(TRUE, Term("iri", << text[i + 1] >>, None, None), i + 3)
         ELSE ParseError
    ELSE IF text[i] = "_:"
    THEN IF i + 1 <= Len(text)
         THEN Parsed(TRUE, Term("bnode", << text[i + 1] >>, None, None), i + 2)
         ELSE ParseError
    ELSE IF text[i] = "\"" THEN ParseLiteral(text, i)
    ELSE ParseError

\* White space between terms.
Blank(text, i) == i <= Len(text) /\ text[i] \in {" ", "\n"}

RECURSIVE ParseStatements(_, _, _)
\* The statements "s p o ." from position i on, added to the set acc.
ParseStatements(text, i, acc) ==
    IF i > Len(text) THEN [ok |-> TRUE, triples |-> acc]
    ELSE IF Blank(text, i) THEN ParseStatements(text, i + 1, acc)
    ELSE LET s == ParseTerm(text, i)
             p == ParseTerm(text, s.next + 1)
             o == ParseTerm(text, p.next + 1)
         IN  IF /\ s.ok
                /\ Blank(text, s.next)
                /\ p.ok
                /\ Blank(text, p.next)
                /\ o.ok
                /\ Blank(text, o.next)
                /\ o.next + 1 <= Len(text)
                /\ text[o.next + 1] = "."
             THEN ParseStatements(text, o.next + 2,
                                  acc \cup {Triple(s.term, p.term, o.term)})
             ELSE [ok |-> FALSE, triples |-> {}]

\* A reference Turtle parser on a document.
ParseTurtle(text) == ParseStatements(text, 1, {})

\* ------------------------------------------------------ conversion inputs
SampleTerms == {Term("iri", << "http://example.org/alice" >>, None, None),
                Term("literal", << "a" >>, "en", None)}

SampleOxTerms == {Term("iri", << "http://example.org/alice" >>, None, None),
                  Term("literal", << "a" >>, "en", RDF_LANGSTRING)}

\* Projections of a SELECT query.
VariableLists == {<< "s" >>, << "s", "o" >>, << "s", "count" >>}

\* The tuples of length n over a set.
Tuples(n, S) == [1..n -> S]

\* The sequences of at most n elements of a set.
SeqUpTo(n, S) == UNION { Tuples(k, S) : k \in 0..n }

L_SelectResults ==
    UNION { { Solutions(variables, rows) :
                rows \in SeqUpTo(MaxRows, Tuples(Len(variables),
                                                SampleTerms \cup {NoTerm})) } :
            variables \in VariableLists }

R_SelectResults ==
    UNION { { Solutions(variables, rows) :
                rows \in SeqUpTo(MaxRows, Tuples(Len(variables),
                                                SampleOxTerms \cup {NoTerm})) } :
            variables \in VariableLists }

OxTriples ==
    { Triple(s, Term("iri", << "http://example.org/alice" >>, None, None), o) :
        s \in {Term("iri", << "http://example.org/Person" >>, None, None),
               Term("bnode", << "b0" >>, None, None)},
        o \in OxTerms }

SampleOxTriples ==
    { Triple(Term("bnode", << "b1" >>, None, None),
             Term("iri", << "http://example.org/Person" >>, None, None), o) :
        o \in SampleOxTerms }

ConstructResults ==
    {QueryTriples(<< >>)}
        \cup {QueryTriples(<< t >>) : t \in OxTriples}
        \cup {QueryTriples(<< t, u >>) : t \in OxTriples, u \in SampleOxTriples}

AskResults == {Boolean(TRUE), Boolean(FALSE)}

\* What the local engine can hand back for any query text.
L_Results ==
    L_SelectResults \cup AskResults
        \cup {QueryTriples(<< t >>) : t \in SampleOxTriples}

\* What the remote engine can hand back for any query text.
R_Results == R_SelectResults \cup AskResults \cup ConstructResults

\* ---------------------------------------------------- conversion actions
T_L_sparql_select ==
    /\ eval.fn = "none"
    /\ \E result \in L_Results :
           eval' = Applied("L_sparql_select", result, L_sparql_select_result(result))
    /\ UNCHANGED << sessionVars, store >>

T_L_sparql_ask ==
    /\ eval.fn = "none"
    /\ \E result \in L_Results :
           eval' = Applied("L_sparql_ask", result, L_sparql_ask_result(result))
    /\ UNCHANGED << sessionVars, store >>

T_R_sparql_select ==
    /\ eval.fn = "none"
    /\ \E result \in R_Results :
           eval' = Applied("R_sparql_select", result, R_sparql_select_result(result))
    /\ UNCHANGED << sessionVars, store >>

T_R_sparql_construct ==
    /\ eval.fn = "none"
    /\ \E result \in R_Results :
           eval' = Applied("R_sparql_construct", result,
                           R_sparql_construct_result(result))
    /\ UNCHANGED << sessionVars, store >>

T_R_sparql_ask ==
    /\ eval.fn = "none"
    /\ \E result \in R_Results :
           eval' = Applied("R_sparql_ask", result, R_sparql_ask_result(result))
    /\ UNCHANGED << sessionVars, store >>

T_R_format_term ==
    /\ eval.fn = "none"
    /\ \E term \in OxTerms :
           eval' = Applied("R_format_term", term, R_format_term(term))
    /\ UNCHANGED << sessionVars, store >>

TermsInit ==
    /\ NoSession
    /\ store = {}
    /\ eval = NoEval

TermsNext ==
    \/ T_L_term_to_dict
    \/ T_R_term_to_dict
    \/ T_L_sparql_select
    \/ T_L_sparql_ask
    \/ T_R_sparql_select
    \/ T_R_sparql_construct
    \/ T_R_sparql_ask
    \/ T_R_format_term

\* The conversions of both adapters, applied to every engine answer.
SpecTerms == TermsInit /\ [][TermsNext]_vars

\* ---------------------------------------------------------------- C11
\* C11: no operation turns an unexpected engine result into an empty or
\* default answer: sparql_select returns an empty binding list only when the
\* engine returned zero rows, sparql_construct empty text only when the engine
\* returned zero triples, sparql_ask false only when the engine answered false.
C11_NoSilentDefault ==
    /\ (eval.fn \in {"L_sparql_select", "R_sparql_select"}
            /\ eval.output.bindings = << >>)
         => (eval.input.kind = "solutions" /\ eval.input.rows = << >>)
    /\ (eval.fn = "R_sparql_construct" /\ eval.output.triples = << >>)
         => (eval.input.kind = "triples" /\ eval.input.triples = << >>)
    /\ (eval.fn \in {"L_sparql_ask", "R_sparql_ask"} /\ ~eval.output.boolean)
         => (eval.input.kind = "boolean" /\ ~eval.input.boolean)

\* ---------------------------------------------------------------- C17
\* C17: normalization maps IRI, blank node and literal to "uri", "bnode" and
\* "literal" with the value unchanged; a literal gets its language tag if it
\* has one, otherwise its datatype if it has one, and never both.
C17_LanguageElseDatatype ==
    eval.fn \in {"L_term_to_dict", "R_term_to_dict"}
      => /\ eval.input.kind = "iri" => eval.output.type = "uri"
         /\ eval.input.kind = "bnode" => eval.output.type = "bnode"
         /\ eval.input.kind = "literal" => eval.output.type = "literal"
         /\ eval.output.value = eval.input.value
         /\ eval.output.lang = eval.input.language
         /\ eval.output.datatype =
                (IF eval.input.language # None THEN None ELSE eval.input.datatype)
         /\ ~(eval.output.lang # None /\ eval.output.datatype # None)

\* ---------------------------------------------------------------- C18
\* C18: a SELECT result lists the engine's variables in projection order, has
\* one binding per row in row order, and a binding has a key for a variable
\* exactly when the variable is bound in that row.
C18_KeysAreBoundVariables ==
    (eval.fn \in {"L_sparql_select", "R_sparql_select"}
        /\ eval.input.kind = "solutions")
      => /\ eval.output.variables = eval.input.vars
         /\ Len(eval.output.bindings) = Len(eval.input.rows)
         /\ \A r \in 1..Len(eval.input.rows) :
                DOMAIN eval.output.bindings[r]
                    = {eval.input.vars[i] :
                          i \in {j \in 1..Len(eval.input.vars) :
                                    eval.input.rows[r][j].kind # "none"}}

\* ---------------------------------------------------------------- C19
\* C19: the networked adapter renders the triples as one "s p o ." per triple
\* in the engine's order, separated by line breaks: an IRI as <iri>, a blank
\* node as _:label, a literal in double quotes with every backslash and every
\* double quote preceded by a backslash, then @lang if it has a language tag,
\* otherwise ^^<datatype> if it has a datatype other than xsd:string.
C19_TurtleRendering ==
    LET RECURSIVE Body(_)
        Body(value) ==
            IF value = << >> THEN << >>
            ELSE (IF Head(value) \in {"\\", "\""}
                  THEN << "\\", Head(value) >>
                  ELSE << Head(value) >>) \o Body(Tail(value))
        Suffix(t) ==
            IF t.language # None THEN << "@", t.language >>
            ELSE IF t.datatype \notin {None, XSD_STRING}
            THEN << "^^", "<", t.datatype, ">" >>
            ELSE << >>
        Text(t) ==
            IF t.kind = "iri" THEN << "<" >> \o t.value \o << ">" >>
            ELSE IF t.kind = "bnode" THEN << "_:" >> \o t.value
            ELSE << "\"" >> \o Body(t.value) \o << "\"" >> \o Suffix(t)
        Line(tr) ==
            Text(tr.subject) \o << " " >> \o Text(tr.predicate) \o << " " >>
                \o Text(tr.object) \o << " ", "." >>
        RECURSIVE Lines(_)
        Lines(trs) ==
            IF trs = << >> THEN << >>
            ELSE IF Len(trs) = 1 THEN Line(trs[1])
            ELSE Line(trs[1]) \o << "\n" >> \o Lines(Tail(trs))
    IN  /\ eval.fn = "R_format_term" => eval.output = Text(eval.input)
        /\ (eval.fn = "R_sparql_construct" /\ eval.input.kind = "triples")
             => /\ eval.output.type = "construct"
                /\ eval.output.given = {"triples"}
                /\ eval.output.triples = Lines(eval.input.triples)

\* Two triples are rendered, the first with a typed literal that holds a
\* double quote and a backslash.
C19_Witness ==
    /\ eval.fn = "R_sparql_construct"
    /\ eval.input.kind = "triples"
    /\ Len(eval.input.triples) = 2
    /\ eval.input.triples[1].object = Term("literal", << "\"", "\\" >>, None, XSD_INTEGER)
    /\ eval.output.triples # << >>

\* ---------------------------------------------------------------- C20
\* C20: for every triple set the engine returns to sparql_construct, a
\* reference Turtle parser reads the rendered text and yields the same triples.
C20_RenderedTurtleRoundTrips ==
    (eval.fn = "R_sparql_construct" /\ eval.input.kind = "triples")
      => /\ ParseTurtle(eval.output.triples).ok
         /\ ParseTurtle(eval.output.triples).triples
                = {eval.input.triples[i] : i \in 1..Len(eval.input.triples)}

\* ---------------------------------------------------------------- C14
\* C14: on the in-process adapter get_statistics returns the counts of the
\* store as it is at the time of the call: statements, distinct subjects and
\* distinct objects of the graph, and five zeros for the empty graph.
C14_StatisticsOfCurrentStore ==
    (adapter = "local" /\ res.op = "get_statistics" /\ res.outcome # "NotConnected")
      => /\ res.outcome = "ok"
         /\ res.value.total_statements = Cardinality(l_graph.triples)
         /\ res.value.total_subjects = Cardinality({t[1] : t \in l_graph.triples})
         /\ res.value.total_objects = Cardinality({t[3] : t \in l_graph.triples})
         /\ l_graph.triples = {}
              => res.value = StatisticsInfo(0, 0, 0, 0, 0)

\* ======================================================= queries on a store
\* ------------------------------------------------------------------ bounds
\* Largest limit handed to a derived operation.
MaxLimit == 3

\* --------------------------------------------------------------- the store
RDF_TYPE == "http://www.w3.org/1999/02/22-rdf-syntax-ns#type"

RDFS_LABEL == "http://www.w3.org/2000/01/rdf-schema#label"

RDFS_COMMENT == "http://www.w3.org/2000/01/rdf-schema#comment"

RDFS_CLASS == "http://www.w3.org/2000/01/rdf-schema#Class"

OWL_CLASS == "http://www.w3.org/2002/07/owl#Class"

EX_ALICE == "http://example.org/alice"

EX_BOB == "http://example.org/bob"

EX_PERSON == "http://example.org/Person"

Iri(value) == Term("iri", << value >>, None, None)

Lit(value, language) == Term("literal", << value >>, language, None)

\* The statements a store may hold: the sample data of the tests, a class
\* declaration and labels in two languages.
StoreTriples ==
    { Triple(Iri(EX_ALICE), Iri(RDF_TYPE), Iri(EX_PERSON)),
      Triple(Iri(EX_BOB), Iri(RDF_TYPE), Iri(EX_PERSON)),
      Triple(Iri(EX_ALICE), Iri(RDFS_LABEL), Lit("Alice", None)),
      Triple(Iri(EX_ALICE), Iri(RDFS_LABEL), Lit("Alicia", "es")),
      Triple(Iri(EX_PERSON), Iri(RDF_TYPE), Iri(OWL_CLASS)),
      Triple(Iri(EX_PERSON), Iri(RDFS_LABEL), Lit("Person", "en")),
      Triple(Iri(EX_PERSON), Iri(RDFS_LABEL), Lit("Personne", "fr")) }

\* Documents that are loaded: one statement each, or the sample document.
StoreDocs ==
    {{t} : t \in StoreTriples}
        \cup {{ Triple(Iri(EX_ALICE), Iri(RDF_TYPE), Iri(EX_PERSON)),
                Triple(Iri(EX_BOB), Iri(RDF_TYPE), Iri(EX_PERSON)),
                Triple(Iri(EX_ALICE), Iri(RDFS_LABEL), Lit("Alice", None)) }}

Adapters == {"local", "remote"}

\* ------------------------------------------------------------- the engine
\* The IRIs in ascending order, as ORDER BY compares them.
IriOrder == << EX_PERSON, EX_ALICE, EX_BOB, RDF_TYPE, RDFS_CLASS, RDFS_COMMENT,
               RDFS_LABEL, OWL_CLASS >>

Rank(term) == CHOOSE i \in 1..Len(IriOrder) : IriOrder[i] = term.value[1]

\* OPTIONAL: the matches, or one unbound value when there is none.
Optional(matches) == IF matches = {} THEN {NoTerm} ELSE matches

\* The objects of (subject, predicate, ?o).
Objects(ts, subject, predicate) ==
    {t.object : t \in {u \in ts : u.subject = subject /\ u.predicate = predicate}}

\* ORDER BY the first column: every order of the distinct rows in which that
\* column ascends; rows that agree on it come in an order the engine chooses.
Orderings(rows) ==
    {q \in [1..Cardinality(rows) -> rows] :
        /\ \A i, j \in 1..Cardinality(rows) : i # j => q[i] # q[j]
        /\ \A i, j \in 1..Cardinality(rows) :
               i < j => Rank(q[i][1]) <= Rank(q[j][1])}

\* LIMIT
Limit(q, limit) == SubSeq(q, 1, IF limit < Len(q) THEN limit ELSE Len(q))

\* The answers the engine may give to SELECT DISTINCT ... ORDER BY ... LIMIT.
EngineSelect(variables, rows, limit) ==
    {Solutions(variables, Limit(q, limit)) : q \in Orderings(rows)}

\* A triple pattern: a term or a variable in each position.
Var(name) == Term("var", << name >>, None, None)

Matches(pattern, triple) ==
    /\ pattern.subject.kind = "var" \/ pattern.subject = triple.subject
    /\ pattern.predicate.kind = "var" \/ pattern.predicate = triple.predicate
    /\ pattern.object.kind = "var" \/ pattern.object = triple.object

\* The engine's answer to ASK { pattern }.
EngineAsk(ts, pattern) == Boolean(\E t \in ts : Matches(pattern, t))

AskPatterns ==
    { Triple(Var("s"), Var("p"), Var("o")),
      Triple(Var("s"), Iri(RDF_TYPE), Iri(EX_PERSON)),
      Triple(Iri(EX_BOB), Iri(RDF_TYPE), Var("o")),
      Triple(Iri(EX_ALICE), Iri(RDFS_LABEL), Lit("Alice", None)) }

\* -------------------------------------------------- derived operations
\* self.sparql_select / self.sparql_ask of the adapter in use.
SelectResult(a, result) ==
    IF a = "local" THEN L_sparql_select_result(result)
    ELSE R_sparql_select_result(result)

AskResult(a, result) ==
    IF a = "local" THEN L_sparql_ask_result(result)
    ELSE R_sparql_ask_result(result)

\* Mutant: the class is not part of the pattern.
FindInstancesRows_any_class(ts, class_iri) ==
    UNION {{<< t.subject, l >> : l \in Optional(Objects(ts, t.subject, Iri(RDFS_LABEL)))} :
              t \in {u \in ts : u.predicate = Iri(RDF_TYPE)}}

\* The solutions of the pattern of Backend.find_instances:
\* ?instance a <class_iri> . OPTIONAL { ?instance rdfs:label ?label }
FindInstancesRows(ts, class_iri) ==
    UNION {{<< t.subject, l >> : l \in Optional(Objects(ts, t.subject, Iri(RDFS_LABEL)))} :
              t \in {u \in ts : u.predicate = Iri(RDF_TYPE) /\ u.object = Iri(class_iri)}}

\* The classes of the three UNION branches of Backend.search_classes.
Classes(ts) ==
    {t.subject : t \in {u \in ts : /\ u.predicate = Iri(RDF_TYPE)
                                   /\ u.object \in {Iri(OWL_CLASS), Iri(RDFS_CLASS)}}}
        \cup {t.object : t \in {u \in ts : u.predicate = Iri(RDF_TYPE)}}

\* Patterns handed to search_classes, and REGEX(STR(?class), pattern, "i").
ClassPatterns == {None, "person"}

Regex(class, pattern) == pattern = "person" /\ class = Iri(EX_PERSON)

\* The solutions of the pattern of Backend.search_classes; an empty or
\* omitted pattern adds no FILTER.
SearchClassesRows(ts, pattern) ==
    UNION {{<< c, l, m >> : l \in Optional(Objects(ts, c, Iri(RDFS_LABEL))),
                            m \in Optional(Objects(ts, c, Iri(RDFS_COMMENT)))} :
              c \in {d \in Classes(ts) : ~Truthy(pattern) \/ Regex(d, pattern)}}

\* ------------------------------------------------------------ operations
\* Statements reach the store (LocalBackend.load_data; on a server, a write
\* by any of its clients).
S_load_data ==
    /\ \E doc \in StoreDocs :
           /\ store' = store \cup doc
           /\ eval' = Applied("load_data", doc,
                              Cardinality(store \cup doc) - Cardinality(store))
    /\ UNCHANGED sessionVars

S_sparql_ask ==
    /\ \E a \in Adapters, pattern \in AskPatterns :
           eval' = Applied("sparql_ask", [adapter |-> a, pattern |-> pattern],
                           AskResult(a, EngineAsk(store, pattern)))
    /\ UNCHANGED << sessionVars, store >>

S_find_instances ==
    /\ \E a \in Adapters, class_iri \in {EX_PERSON, OWL_CLASS}, limit \in 1..MaxLimit :
           \E result \in EngineSelect(<< "instance", "label" >>,
                                      FindInstancesRows(store, class_iri), limit) :
               eval' = Applied("find_instances",
                               [adapter |-> a, class_iri |-> class_iri,
                                limit |-> limit],
                               SelectResult(a, result))
    /\ UNCHANGED << sessionVars, store >>

S_search_classes ==
    /\ \E a \in Adapters, pattern \in ClassPatterns, limit \in 1..MaxLimit :
           \E result \in EngineSelect(<< "class", "label", "comment" >>,
                                      SearchClassesRows(store, pattern), limit) :
               eval' = Applied("search_classes",
                               [adapter |-> a, pattern |-> pattern, limit |-> limit],
                               SelectResult(a, result))
    /\ UNCHANGED << sessionVars, store >>

StoreNext ==
    \/ S_load_data
    \/ S_sparql_ask
    \/ S_find_instances
    \/ S_search_classes

\* Queries and derived operations on a store that grows from empty.
SpecStore == TermsInit /\ [][StoreNext]_vars

\* ---------------------------------------------------------------- C13
\* C13: sparql_ask returns true if and only if the pattern has at least one
\* match in the store, false on the empty store, in a result of type "ask"
\* with only the boolean populated.
C13_AskIffMatch ==
    LET Fits(x, y) == x.kind = "var" \/ x = y
    IN  eval.fn = "sparql_ask"
          => /\ eval.output.type = "ask"
             /\ eval.output.given = {"boolean"}
             /\ eval.output.boolean
                  <=> \E t \in store :
                          /\ Fits(eval.input.pattern.subject, t.subject)
                          /\ Fits(eval.input.pattern.predicate, t.predicate)
                          /\ Fits(eval.input.pattern.object, t.object)
             /\ store = {} => ~eval.output.boolean

\* The networked adapter answers true for ?s rdf:type ex:Person on a store
\* that holds other statements too.
C13_Witness ==
    /\ eval.fn = "sparql_ask"
    /\ eval.input.adapter = "remote"
    /\ eval.input.pattern = Triple(Var("s"), Iri(RDF_TYPE), Iri(EX_PERSON))
    /\ eval.output.boolean
    /\ Cardinality(store) >= 3

\* ---------------------------------------------------------------- C15
\* C15 as stated: find_instances returns exactly the subjects typed C, none
\* missing and no other, in ascending IRI order.
C15_ExactlyTheInstances ==
    eval.fn = "find_instances"
      => /\ {eval.output.bindings[r].instance.value[1] :
                r \in 1..Len(eval.output.bindings)}
              = {t.subject.value[1] :
                    t \in {u \in store : /\ u.predicate = Iri(RDF_TYPE)
                                         /\ u.object = Iri(eval.input.class_iri)}}
         /\ \A r \in 1..(Len(eval.output.bindings) - 1) :
                Rank(eval.output.bindings[r].instance)
                    <= Rank(eval.output.bindings[r + 1].instance)

\* C15 amended: find_instances(C, limit) returns at most limit rows in
\* ascending IRI order; every returned subject is typed C; a subject typed C
\* that is missing sorts no earlier than every returned one; and none is
\* missing when the (subject, label) rows number at most limit.
C15_InstancesUpToLimit ==
    LET typed == {t.subject.value[1] :
                     t \in {u \in store : /\ u.predicate = Iri(RDF_TYPE)
                                          /\ u.object = Iri(eval.input.class_iri)}}
        rows  == {<< t.subject, l >> :
                     t \in {u \in store : /\ u.predicate = Iri(RDF_TYPE)
                                          /\ u.object = Iri(eval.input.class_iri)},
                     l \in {NoTerm} \cup {v.object : v \in store}}
        count == Cardinality({row \in rows :
                     IF row[2].kind = "none"
                     THEN ~\E v \in store : /\ v.subject = row[1]
                                            /\ v.predicate = Iri(RDFS_LABEL)
                     ELSE Triple(row[1], Iri(RDFS_LABEL), row[2]) \in store})
        found == {eval.output.bindings[r].instance.value[1] :
                     r \in 1..Len(eval.output.bindings)}
    IN  eval.fn = "find_instances"
          => /\ Len(eval.output.bindings)
                  = (IF count < eval.input.limit THEN count ELSE eval.input.limit)
             /\ found \subseteq typed
             /\ \A r \in 1..Len(eval.output.bindings) :
                    eval.output.bindings[r].instance.type = "uri"
             /\ \A r \in 1..(Len(eval.output.bindings) - 1) :
                    Rank(eval.output.bindings[r].instance)
                        <= Rank(eval.output.bindings[r + 1].instance)
             /\ \A m \in typed \ found : \A f \in found :
                    Rank(Iri(f)) <= Rank(Iri(m))
             /\ count <= eval.input.limit => found = typed

\* find_instances(ex:Person, limit = 1) on a store with two persons returns
\* the first of them.
C15_Witness ==
    /\ eval.fn = "find_instances"
    /\ eval.input.class_iri = EX_PERSON
    /\ eval.input.limit = 1
    /\ Triple(Iri(EX_ALICE), Iri(RDF_TYPE), Iri(EX_PERSON)) \in store
    /\ Triple(Iri(EX_BOB), Iri(RDF_TYPE), Iri(EX_PERSON)) \in store
    /\ Len(eval.output.bindings) = 1
    /\ eval.output.bindings[1].instance.value = << EX_ALICE >>

\* ---------------------------------------------------------------- C16
\* C16: no class IRI appears in two rows of a search_classes result.
C16_ClassIrisDistinct ==
    eval.fn = "search_classes"
      => \A i, j \in 1..Len(eval.output.bindings) :
             i # j => eval.output.bindings[i].class.value
                         # eval.output.bindings[j].class.value

\* ========================================================== tool handlers
\* ------------------------------------------------------------------ bounds
\* Largest default_limit and max_limit of the settings.
MaxSetting == 3

\* ------------------------------------------------------------ query texts
\* A query text, and the LIMIT clause the SPARQL grammar reads in it
\* (NoClause when it has none).
NoClause == -1

QueryText(text, limit) == [text |-> text, limit |-> limit]

LIMIT == << "L", "I", "M", "I", "T" >>

\* "SELECT ?s"
SelectS == << "S", "E", "L", "E", "C", "T", " ", "?", "s" >>

\* The texts a caller sends: without LIMIT, with a LIMIT clause in upper or
\* lower case, and without a LIMIT clause but with the word in a variable
\* name.
SelectQueries ==
    {QueryText(SelectS, NoClause),
     QueryText(SelectS \o << " ", "?", "l", "i", "m", "i", "t" >>, NoClause)}
        \cup {QueryText(SelectS \o << " " >> \o LIMIT \o << " ", ToString(n) >>, n) :
                n \in 1..(MaxSetting + 1)}
        \cup {QueryText(SelectS \o << " ", "l", "i", "m", "i", "t", " ", ToString(n) >>, n) :
                n \in 1..(MaxSetting + 1)}

\* arguments.get("limit"): absent, or an integer.
LimitArgs ==
    {[given |-> FALSE, value |-> 0]}
        \cup {[given |-> TRUE, value |-> n] : n \in 0..(MaxSetting + 1)}

\* Settings.default_limit and Settings.max_limit
LimitSettings == [default_limit : 1..MaxSetting, max_limit : 1..MaxSetting]

\* str.upper on the characters of the texts.
UpperChar(c) ==
    IF c = "l" THEN "L" ELSE IF c = "i" THEN "I" ELSE IF c = "m" THEN "M"
    ELSE IF c = "t" THEN "T" ELSE IF c = "s" THEN "S" ELSE c

Upper(text) == [i \in 1..Len(text) |-> UpperChar(text[i])]

\* sub in text
Contains(text, sub) ==
    \E i \in 1..(Len(text) - Len(sub) + 1) : SubSeq(text, i, i + Len(sub) - 1) = sub

\* min(limit or settings.default_limit, settings.max_limit)
EffectiveLimit(limit, settings) ==
    LET wanted == IF limit.given /\ limit.value # 0 THEN limit.value
                  ELSE settings.default_limit
    IN  IF wanted < settings.max_limit THEN wanted ELSE settings.max_limit

\* The query _handle_sparql_select hands to backend.sparql_select.
ForwardedQuery(query, limit, settings) ==
    IF ~Contains(Upper(query.text), LIMIT)
    THEN QueryText(query.text \o << "\n" >> \o LIMIT
                       \o << " ", ToString(EffectiveLimit(limit, settings)) >>,
                   EffectiveLimit(limit, settings))
    ELSE query

\* RDF4JMCPServer._handle_sparql_select, up to the backend call.
H_server_sparql_select ==
    /\ eval.fn = "none"
    /\ \E query \in SelectQueries, limit \in LimitArgs, settings \in LimitSettings :
           eval' = Applied("handle_sparql_select",
                           [handler |-> "server", query |-> query, limit |-> limit,
                            settings |-> settings],
                           ForwardedQuery(query, limit, settings))
    /\ UNCHANGED << sessionVars, store >>

\* tools.query._handle_sparql_select, up to the backend call.
H_tools_sparql_select ==
    /\ eval.fn = "none"
    /\ \E query \in SelectQueries, limit \in LimitArgs, settings \in LimitSettings :
           eval' = Applied("handle_sparql_select",
                           [handler |-> "tools", query |-> query, limit |-> limit,
                            settings |-> settings],
                           ForwardedQuery(query, limit, settings))
    /\ UNCHANGED << sessionVars, store >>

ToolsNext ==
    \/ H_server_sparql_select
    \/ H_tools_sparql_select

\* The sparql_select tool handlers applied to every call.
SpecTools == TermsInit /\ [][ToolsNext]_vars

\* ---------------------------------------------------------------- C21
\* C21: for a text without a LIMIT clause the handler forwards the text
\* followed by LIMIT min(limit argument if given, else default_limit;
\* max_limit); a text with a LIMIT clause is forwarded unchanged.
C21_LimitAppendedWhenNoClause ==
    eval.fn = "handle_sparql_select"
      => LET wanted == IF eval.input.limit.given THEN eval.input.limit.value
                       ELSE eval.input.settings.default_limit
             n      == IF wanted < eval.input.settings.max_limit THEN wanted
                       ELSE eval.input.settings.max_limit
         IN  IF eval.input.query.limit = NoClause
             THEN eval.output.text
                    = eval.input.query.text \o << "\n", "L", "I", "M", "I", "T", " ",
                                                 ToString(n) >>
             ELSE eval.output.text = eval.input.query.text

\* ---------------------------------------------------------------- C22
\* C22: no query the handler forwards has a row limit greater than max_limit.
C22_ForwardedLimitAtMostMax ==
    eval.fn = "handle_sparql_select"
      => /\ eval.output.limit # NoClause
         /\ eval.output.limit <= eval.input.settings.max_limit

\* ======================================================== the server object
\* ------------------------------------------------------------------ bounds
\* Most backend objects one process creates.
MaxBackends == 3

\* ---------------------------------------------------------------- settings
\* Settings(): the defaults of the fields.
DefaultSettings == Settings("local", 100)

\* Settings objects a caller builds.
CustomSettings == {Settings("remote", 100), Settings("local", 50)}

\* What the server specification leaves alone.
serverFrame == << adapter, localVars, remoteVars, serverRepos, life, connFailed,
                 eng, store, eval, tasks >>

\* ------------------------------------------------------------- operations
\* config.configure
Srv_configure ==
    /\ \E settings \in CustomSettings :
           /\ srv' = [srv EXCEPT !.settings = settings]
           /\ res' = Call("configure", "settings", "ok", None, None, 0)
    /\ UNCHANGED serverFrame

\* config.get_settings after an optional configure(settings): the global
\* instance, created with the defaults when there is none.
GetSettings(settings, given) ==
    IF given # NoSettings THEN given
    ELSE IF settings = NoSettings THEN DefaultSettings
    ELSE settings

\* create_server(settings) / RDF4JMCPServer.__init__
Srv_create_server ==
    /\ \E settings \in CustomSettings \cup {NoSettings} :
           /\ srv' = [srv EXCEPT !.settings = GetSettings(srv.settings, settings),
                                 !.server_settings = GetSettings(srv.settings, settings),
                                 !.backend = NoBackend,
                                 !.started = FALSE]
           /\ res' = Call("create_server",
                          IF settings = NoSettings THEN None ELSE "settings",
                          "ok", None, None, 0)
    /\ UNCHANGED serverFrame

\* RDF4JMCPServer.start: self._backend = await self._create_backend(); the
\* new backend's connect() succeeds or raises.
Srv_start ==
    /\ srv.server_settings # NoSettings
    /\ srv.nextBackend <= MaxBackends
    /\ \E connects \in BOOLEAN :
           IF connects
           THEN /\ srv' = [srv EXCEPT !.backend = srv.nextBackend,
                                      !.nextBackend = srv.nextBackend + 1,
                                      !.connected = srv.connected \cup {srv.nextBackend},
                                      !.started = TRUE]
                /\ res' = Call("start", None, "ok", None, srv.nextBackend, 0)
           ELSE /\ srv' = [srv EXCEPT !.nextBackend = srv.nextBackend + 1]
                /\ res' = Call("start", None, "ConnectError", None, NoBackend, 0)
    /\ UNCHANGED serverFrame

\* Mutant: the backend is closed but not cleared.
Srv_stop_keeps_backend ==
    /\ srv.server_settings # NoSettings
    /\ srv' = [srv EXCEPT !.connected = srv.connected \ {srv.backend},
                          !.closed = IF srv.backend # NoBackend
                                     THEN srv.closed \cup {srv.backend}
                                     ELSE srv.closed,
                          !.started = FALSE]
    /\ res' = Call("stop", None, "ok", None, srv.backend, 0)
    /\ UNCHANGED serverFrame

\* RDF4JMCPServer.stop
Srv_stop ==
    /\ srv.server_settings # NoSettings
    /\ IF srv.backend # NoBackend
       THEN srv' = [srv EXCEPT !.connected = srv.connected \ {srv.backend},
                               !.closed = srv.closed \cup {srv.backend},
                               !.backend = NoBackend,
                               !.started = FALSE]
       ELSE srv' = [srv EXCEPT !.started = FALSE]
    /\ res' = Call("stop", None, "ok", None, srv.backend, 0)
    /\ UNCHANGED serverFrame

\* RDF4JMCPServer._get_backend
Srv_get_backend ==
    /\ srv.server_settings # NoSettings
    /\ IF srv.backend = NoBackend
       THEN res' = Call("_get_backend", None, "RuntimeError", None, NoBackend, 0)
       ELSE res' = Call("_get_backend", None, "ok", None, srv.backend, 0)
    /\ UNCHANGED << srv, serverFrame >>

ServerNext ==
    \/ Srv_configure
    \/ Srv_create_server
    \/ Srv_start
    \/ Srv_stop
    \/ Srv_get_backend

\* One process that configures, creates servers, starts and stops them.
SpecServer == TermsInit /\ [][ServerNext]_vars

C24_DefaultSettingsWhenOmitted ==
    (res.op = "create_server" /\ res.arg = None)
      => srv.server_settings = DefaultSettings

\* ---------------------------------------------------------------- C25
\* C25: on a connected in-process adapter a successful load_data or load_file
\* returns the number of distinct triples of its input, and afterwards the
\* store holds what it held before together with every triple of the input.
C25_LoadReturnsInputSize ==
    [][(res'.op \in {"load_data", "load_file"} /\ res'.outcome = "ok")
         => LET input == IF res'.op = "load_file" THEN FileTriples(res'.arg)
                         ELSE res'.arg.triples
            IN  /\ res'.value = Cardinality(input)
                /\ l_graph'.triples = l_graph.triples \cup input]_vars

\* ---------------------------------------------------------------- C26
\* C26: on a connected networked adapter a call that omits repositoryId, or
\* passes the selected id, performs no repository resolution; resolution
\* happens only in connect() with a configured default, in select_repository,
\* and in calls that pass an explicit id other than the selected one.
C26_CachedHandleReused ==
    adapter = "remote"
      => /\ (res.op \in QueryOps /\ res.outcome # "NotConnected"
                /\ res.arg \in {None, r_current_repository})
              => res.resolved = 0
         /\ res.resolved > 0
              => \/ res.op = "connect" /\ r_default_repository # None
                 \/ res.op = "select_repository"
                 \/ /\ res.op \in QueryOps \cup {"get_schema_summary"}
                           /\ res.arg \notin {None, r_current_repository}

C30_LocalIgnoresRepositoryId ==
    LET Result(ran) == [outcome |-> ran.call.outcome, target |-> ran.call.target,
                        value |-> ran.call.value, engine |-> ran.engine]
    IN  adapter = "local"
          => /\ \A repository_id \in LocalCallIds \cup RepoIds :
                    /\ \A op \in {"sparql_select", "sparql_construct", "sparql_ask"},
                          query \in Queries :
                           Result(L_QueryCall(op, query, repository_id))
                               = Result(L_QueryCall(op, query, None))
                    /\ Result(L_NamespacesCall(repository_id))
                           = Result(L_NamespacesCall(None))
                    /\ Result(L_StatisticsCall(repository_id))
                           = Result(L_StatisticsCall(None))
             /\ res.op \in QueryOps
                   => res.outcome \notin {"ValueError", "RepositoryNotFound"}

\* A query that named a repository select_repository rejects, and was
\* answered.
C30_Witness ==
    /\ adapter = "local"
    /\ res.op = "sparql_select"
    /\ res.arg = "nonexistent"
    /\ res.arg # l_repository_id
    /\ res.outcome = "ok"

\* ------------------------------------------ concurrent callers (asyncio)
\* One RemoteBackend shared by coroutines on one event loop. A coroutine
\* runs alone from one await to the next; at `await client.__aenter__()`,
\* `await client.__aexit__()`, `await client.get_repository()` and the awaited
\* engine calls it is suspended and any other coroutine may run.

\* The coroutines that call the backend.
TaskIds == {"t1", "t2"}

\* Clients the concurrent callers may open.
MaxAsyncClients == 2

\* A coroutine: the method it runs and its argument, the await it is
\* suspended at, its locals `client` and `repo`, the id it resolves, the
\* call of get_schema_summary it is in, and the set of repositories its
\* engine calls ran against. A local that the code does not read again holds
\* its initial value.
Task(op, pc, arg, client, repo, repo_id, step, ran_on) ==
    [op |-> op, pc |-> pc, arg |-> arg, client |-> client, repo |-> repo,
     repo_id |-> repo_id, step |-> step, ran_on |-> ran_on]

IdleTask == Task("none", "idle", None, NoClient, NoRepo, None, 0, {})

asyncFrame ==
    UNCHANGED << store, eval, srv, adapter, localVars, r_default_repository,
                 serverRepos, life, connFailed, eng >>

\* The coroutine of task t returns or raises: `call` is its record.
A_Return(t, call) ==
    /\ tasks' = [tasks EXCEPT ![t] = IdleTask]
    /\ res' = call

\* The coroutine of task t goes on to its next await.
A_Suspend(t, task) ==
    /\ tasks' = [tasks EXCEPT ![t] = task]
    /\ res' = res

\* AsyncRdf4j.get_repository returning to a suspended caller: as
\* ClientGetRepository while the client is open; when the client was closed
\* meanwhile, the answer that had arrived or the error of a closed client.
A_ClientGetRepository(client, repo_id) ==
    IF client \in openClients
    THEN {ClientGetRepository(client, repo_id)}
    ELSE {ClientGetRepository(client, repo_id),
          [outcome |-> "EngineUnavailable", repo |-> NoRepo, resolved |-> 1]}

\* connect(): self._client = AsyncRdf4j(url), then await __aenter__()
A_connect_begin ==
    /\ adapter = "remote"
    /\ nextClient <= MaxAsyncClients
    /\ \E t \in TaskIds :
           /\ tasks[t].pc = "idle"
           /\ r_client' = nextClient
           /\ nextClient' = nextClient + 1
           /\ A_Suspend(t, [IdleTask EXCEPT !.op = "connect", !.pc = "aenter",
                                            !.client = nextClient])
    /\ UNCHANGED << r_repo, r_current_repository, openClients >>
    /\ asyncFrame

\* __aenter__() returned: if self._default_repository, the coroutine calls
\* self._client.get_repository(...), reading self._client as it is now.
A_connect_entered ==
    /\ adapter = "remote"
    /\ \E t \in TaskIds :
           /\ tasks[t].op = "connect" /\ tasks[t].pc = "aenter"
           /\ openClients' = openClients \cup {tasks[t].client}
           /\ IF ~Truthy(r_default_repository)
              THEN A_Return(t, Call("connect", None, "ok", None, None, 0))
              ELSE IF r_client = NoClient
              THEN A_Return(t, Call("connect", None, "AttributeError", None, None, 0))
              ELSE A_Suspend(t, [tasks[t] EXCEPT !.pc = "resolve",
                                                 !.client = r_client,
                                                 !.repo_id = r_default_repository])
    /\ UNCHANGED << r_client, r_repo, r_current_repository, nextClient >>
    /\ asyncFrame

\* get_repository returned to connect(): self._repo and
\* self._current_repository are assigned, or the error leaves the method.
A_connect_resolved ==
    /\ adapter = "remote"
    /\ \E t \in TaskIds :
           /\ tasks[t].op = "connect" /\ tasks[t].pc = "resolve"
           /\ \E got \in A_ClientGetRepository(tasks[t].client, tasks[t].repo_id) :
                  /\ r_repo' = (IF got.outcome = "ok" THEN got.repo ELSE r_repo)
                  /\ r_current_repository' =
                         (IF got.outcome = "ok" THEN tasks[t].repo_id
                          ELSE r_current_repository)
                  /\ A_Return(t, Call("connect", None, got.outcome, None, None, 1))
    /\ UNCHANGED << r_client, openClients, nextClient >>
    /\ asyncFrame

\* close(): if self._client: await self._client.__aexit__(None, None, None)
A_close_begin ==
    /\ adapter = "remote"
    /\ \E t \in TaskIds :
           /\ tasks[t].pc = "idle"
           /\ IF r_client = NoClient
              THEN A_Return(t, Call("close", None, "ok", None, None, 0))
              ELSE A_Suspend(t, [IdleTask EXCEPT !.op = "close", !.pc = "aexit",
                                                 !.client = r_client])
    /\ UNCHANGED << remoteVars >>
    /\ asyncFrame

\* __aexit__() returned: self._client = None; self._repo = None
A_close_exited ==
    /\ adapter = "remote"
    /\ \E t \in TaskIds :
           /\ tasks[t].op = "close" /\ tasks[t].pc = "aexit"
           /\ openClients' = openClients \ {tasks[t].client}
           /\ r_client' = NoClient
           /\ r_repo' = NoRepo
           /\ A_Return(t, Call("close", None, "ok", None, None, 0))
    /\ UNCHANGED << r_current_repository, nextClient >>
    /\ asyncFrame

\* select_repository(id): client = self._ensure_connected(), then
\* await client.get_repository(id)
A_select_begin ==
    /\ adapter = "remote"
    /\ \E t \in TaskIds, repository_id \in RepoIds :
           /\ tasks[t].pc = "idle"
           /\ IF ~R_ensure_connected(r_client)
              THEN A_Return(t, Call("select_repository", repository_id,
                                    "NotConnected", None, None, 0))
              ELSE A_Suspend(t, [IdleTask EXCEPT !.op = "select_repository",
                                                 !.pc = "resolve",
                                                 !.arg = repository_id,
                                                 !.client = r_client,
                                                 !.repo_id = repository_id])
    /\ UNCHANGED << remoteVars >>
    /\ asyncFrame

\* get_repository returned to select_repository: self._repo = ...;
\* self._current_repository = repository_id
A_select_resolved ==
    /\ adapter = "remote"
    /\ \E t \in TaskIds :
           /\ tasks[t].op = "select_repository" /\ tasks[t].pc = "resolve"
           /\ \E got \in A_ClientGetRepository(tasks[t].client, tasks[t].repo_id) :
                  /\ r_repo' = (IF got.outcome = "ok" THEN got.repo ELSE r_repo)
                  /\ r_current_repository' =
                         (IF got.outcome = "ok" THEN tasks[t].repo_id
                          ELSE r_current_repository)
                  /\ A_Return(t, Call("select_repository", tasks[t].arg,
                                      got.outcome, None, None, 1))
    /\ UNCHANGED << r_client, openClients, nextClient >>
    /\ asyncFrame

\* The methods that run engine calls through _get_repository.
AsyncQueryOps == {"sparql_select", "get_schema_summary"}

\* The engine calls of a method: four for get_schema_summary, one otherwise.
A_Steps(op) == IF op = "get_schema_summary" THEN Len(SummarySteps) ELSE 1

\* The query text of a task's engine call.
A_QueryText(task) ==
    IF task.op = "get_schema_summary"
          /\ SummarySteps[task.step].op \in {"get_statistics", "get_namespaces"}
    THEN None ELSE "wellformed"

\* The coroutine of task t enters _get_repository(task.arg) for the engine
\* call task.step: it raises, or returns the cached handle and goes on to
\* await the engine, or awaits client.get_repository.
A_get_repository(t, task) ==
    IF ~R_ensure_connected(r_client)
    THEN A_Return(t, Call(task.op, task.arg, "NotConnected", None, task.ran_on, 0))
    ELSE LET repo_id == IF Truthy(task.arg) THEN task.arg
                        ELSE r_current_repository
         IN  IF repo_id = None
             THEN A_Return(t, Call(task.op, task.arg, "ValueError", None,
                                   task.ran_on, 0))
             ELSE IF r_repo # NoRepo /\ r_current_repository = repo_id
             THEN A_Suspend(t, [task EXCEPT !.pc = "run", !.repo = r_repo])
             ELSE A_Suspend(t, [task EXCEPT !.pc = "resolve", !.client = r_client,
                                            !.repo_id = repo_id])

\* sparql_select(query, id) or get_schema_summary(id) is called.
A_query_begin ==
    /\ adapter = "remote"
    /\ \E t \in TaskIds, op \in AsyncQueryOps, repository_id \in RepoIds \cup {None} :
           /\ tasks[t].pc = "idle"
           /\ A_get_repository(t, [IdleTask EXCEPT !.op = op, !.arg = repository_id,
                                                   !.step = 1])
    /\ UNCHANGED << remoteVars >>
    /\ asyncFrame

\* get_repository returned to _get_repository: the handle is returned to
\* the method, which awaits the engine; nothing is assigned to the backend.
A_query_resolved ==
    /\ adapter = "remote"
    /\ \E t \in TaskIds :
           /\ tasks[t].op \in AsyncQueryOps /\ tasks[t].pc = "resolve"
           /\ \E got \in A_ClientGetRepository(tasks[t].client, tasks[t].repo_id) :
                  IF got.outcome = "ok"
                  THEN A_Suspend(t, [tasks[t] EXCEPT !.pc = "run", !.repo = got.repo,
                                                     !.client = NoClient,
                                                     !.repo_id = None])
                  ELSE A_Return(t, Call(tasks[t].op, tasks[t].arg, got.outcome,
                                        None, tasks[t].ran_on, 1))
    /\ UNCHANGED << remoteVars >>
    /\ asyncFrame

\* The engine answered: the method returns, or get_schema_summary goes on
\* to its next call, which enters _get_repository again.
A_query_ran ==
    /\ adapter = "remote"
    /\ \E t \in TaskIds :
           /\ tasks[t].op \in AsyncQueryOps /\ tasks[t].pc = "run"
           /\ LET ran == EngineRun(tasks[t].repo, A_QueryText(tasks[t]))
                  ran_on == tasks[t].ran_on \cup {tasks[t].repo.id}
              IN  IF ran # "ok"
                  THEN A_Return(t, Call(tasks[t].op, tasks[t].arg, ran,
                                        None, tasks[t].ran_on, 0))
                  ELSE IF tasks[t].step < A_Steps(tasks[t].op)
                  THEN A_get_repository(t, [tasks[t] EXCEPT !.step = @ + 1,
                                                            !.ran_on = ran_on,
                                                            !.repo = NoRepo])
                  ELSE A_Return(t, Call(tasks[t].op, tasks[t].arg, "ok",
                                        None, ran_on, 0))
    /\ UNCHANGED << remoteVars >>
    /\ asyncFrame

AsyncInit ==
    /\ adapter = "remote"
    /\ l_store_path = None
    /\ l_graph = NoGraph
    /\ l_repository_id = "local"
    /\ r_default_repository \in RepoIds \cup {None}
    /\ r_current_repository = r_default_repository
    /\ r_client = NoClient
    /\ r_repo = NoRepo
    /\ openClients = {}
    /\ nextClient = 1
    /\ serverRepos \in {RepoIds, {"repoA"}}
    /\ res = NoCall
    /\ life = "new"
    /\ connFailed = FALSE
    /\ eng = NoEngine
    /\ store = {}
    /\ eval = NoEval
    /\ srv = NoServer
    /\ tasks = [t \in TaskIds |-> IdleTask]

AsyncNext ==
    \/ A_connect_begin
    \/ A_connect_entered
    \/ A_connect_resolved
    \/ A_close_begin
    \/ A_close_exited
    \/ A_select_begin
    \/ A_select_resolved
    \/ A_query_begin
    \/ A_query_resolved
    \/ A_query_ran

SpecAsync == AsyncInit /\ [][AsyncNext]_vars

\* C28: whatever the interleaving of connect, close, select_repository and
\* queries, a backend that holds no client holds no cached handle, and a
\* cached handle is never one of a client that has been closed.
C28_NoHandleWithoutOpenClient ==
    LET entering == {tasks[t].client :
                        t \in {u \in TaskIds : /\ tasks[u].op = "connect"
                                               /\ tasks[u].pc = "aenter"}}
        closed == (1..(nextClient - 1)) \ (openClients \cup entering)
    IN  /\ r_client = NoClient => r_repo = NoRepo
        /\ r_repo.client \notin closed

\* C29: the engine calls of one get_schema_summary that omits repositoryId
\* all run against one repository, whatever other coroutines select
\* meanwhile.
C29_SummaryOnOneRepository ==
    (res.op = "get_schema_summary" /\ res.arg = None)
      => Cardinality(res.value) <= 1

====
